---------------------------- MODULE Spec2Model ----------------------------
(***************************************************************************)
(* Verification model of the layered-document processing pipeline          *)
(* (garenfeather/holder-design, backend/ and scripts/).                    *)
(*                                                                         *)
(* Layer names are sequences of character codes, documents are sequences   *)
(* of layers, byte streams are sequences of 0..255.  Every subsystem has   *)
(* its own specification over the shared variables:                        *)
(*   SpecPipeline  - the entry points and their required-layer checks      *)
(*   SpecEncoder   - the three document writers on bounded layer lists     *)
(*   SpecLayerCount- the layer count field and the record loop             *)
(*   SpecResolution- resolution metadata through the pipeline stages       *)
(*   SpecStroke    - the stroke mask generators                            *)
(*   SpecStrokeVersion - the stroke version of a template                  *)
(*   SpecMask      - alpha intersection by ImageChops.multiply             *)
(*   SpecCutout    - cookie-cutter substitution of part layers             *)
(*   SpecCrop      - cropping part layers to the view layer                *)
(*   SpecInward    - the inward transform and the document it writes       *)
(*   SpecOutward   - the geometry of the outward transforms                *)
(*   SpecFlipTranslate - inward, then outward transform                    *)
(*   SpecPreview   - the layer loop of the final preview                   *)
(*   SpecTrim      - trimming of transparent margins                       *)
(*   SpecSanitize  - sanitize_name                                         *)
(*   SpecConcurrent- two concurrent calls of one catalog operation         *)
(*   SpecIndex     - two concurrent writers of the template index          *)
(*   SpecNameField - the name field of a layer record                      *)
(*   SpecGenerate  - the stages and exits of generate_final_psd            *)
(*   SpecReplaceSave - PSDReplacer saving the collected layers             *)
(*   SpecLayerSequence - the layer sequence through the rewriting stages   *)
(***************************************************************************)
EXTENDS Integers, Sequences, FiniteSets, TLC

VARIABLES
    doc,            \* pipeline: raw layer names of the input document, bottom first
    entry,          \* pipeline: the entry point that was called
    pc,             \* pipeline: position inside the call
    result,         \* pipeline: "none" | "ok" | "fail"
    stepsRun,       \* pipeline: transform steps that have run
    filesWritten,   \* pipeline: output documents / artifacts written so far
    catalog,        \* pipeline: template index (sequence of records)
    insideDoc,      \* pipeline: layer names of the document InsideTransformer wrote
    missingReport,  \* pipeline: stages that reported a missing required layer
    encCanvas,      \* encoder: <<canvas_width, canvas_height>>
    encLayers,      \* encoder: the ordered layer list handed to the writer
    encWriter,      \* encoder: which writer produced out
    encPc,          \* encoder: "off" | "input" | "encoded" | "raised"
    encOut,         \* encoder: the bytes of the emitted document
    cntLayers,      \* layer count: len(layers) of the list being encoded
    cntWriter,      \* layer count: which writer runs
    cntPc,          \* layer count: "off" | "start" | "records" | "done" | "raised"
    cntField,       \* layer count: the two bytes of the count field (<<>> before it is written)
    cntRecords,     \* layer count: layer records written so far
    resOrigin,      \* resolution: the six fields of the source's block 1005, and whether it has one
    resDoc,         \* resolution: the bytes of the current document
    resStages,      \* resolution: the stages applied so far, in order
    strokeAlpha,    \* stroke: the alpha band of the input image, [w, h, px]
    strokeWidth,    \* stroke: stroke_width
    strokeGen,      \* stroke: which generator runs
    strokePc,       \* stroke: position in the generator
    strokeBinary,   \* stroke: binary_mask (the mask the dilation started from)
    strokeMask,     \* stroke: stroke_mask, the mask being dilated
    strokeIter,     \* stroke: dilation iterations done
    strokeRing,     \* stroke: pure_stroke_mask
    strokeRgb,      \* stroke: the R, G, B bands of the input image, <<r, g, b>> per pixel
    strokeResult,    \* stroke: the RGBA pixels of the stroked image (<<>> before it exists)
    svLayers,       \* stroke version: the layers of the source document, [name, alpha] with alpha a canvas-size band
    svWidth,        \* stroke version: stroke_width
    svPc,           \* stroke version: "off" | "start" | "extracted" | "stroking" | "done"
    svPngs,         \* stroke version: indices of the layers whose PNG is in the working directory
    svStroked,      \* stroke version: indices of the layers whose PNG is in the stroked directory
    svOutcome,      \* stroke version: "none" | "ok" | "fail"
    svFile,          \* stroke version: TRUE once the stroke document of this width is written
    mkA,            \* mask: an alpha value of image A
    mkB,            \* mask: the alpha value of image B at the same pixel
    mkPc,           \* mask: "off" | "input" | "kept" | "removed"
    mkMask,         \* mask: intersection_mask at that pixel
    mkAlpha,         \* mask: the new alpha of image B at that pixel
    cutPart,        \* cutout: the part layer [x1, y1, w, h, alpha]
    cutImpl,        \* cutout: "none" | "replacer" | "integrated"
    cutPc,          \* cutout: "off" | "input" | "done" | "skipped"
    cutOut,          \* cutout: the emitted raster [x, y, w, h, px]
    cropView,       \* crop: the view layer raster [w, h, alpha]
    cropPart,       \* crop: the part layer raster [w, h, alpha]
    cropDelta,      \* crop: <<dx, dy>> = part position - view position
    cropImpl,       \* crop: "none" | "backend" | "script"
    cropPc,         \* crop: "off" | "input" | "done"
    cropOut,         \* crop: the emitted raster [w, h, px]
    inwLayers,      \* inward: the layers of the source document, in order
    inwPc,          \* inward: "off" | "input" | "written"
    inwTransformed, \* inward: transformed_layers, as handed to the writer
    inwCanvas,      \* inward: <<width, height>> written in the file header
    inwRecords,      \* inward: per layer, the bounds and channel bytes written
    outwCanvasIn,   \* outward: <<width, height>> of the source document
    outwLayers,     \* outward: the layers of the source document [name, x, y, w, h]
    outwImpl,       \* outward: "none" | "script" | "integrated"
    outwPc,         \* outward: "off" | "input" | "done"
    outwCanvas,     \* outward: <<new_width, new_height>>
    outwOffset,     \* outward: <<center_offset_x, center_offset_y>>
    outwFinal,       \* outward: per layer, [x, y, flip] of the final position
    ftLayers,       \* flip-translate: the layers of the source document
    ftPc,           \* flip-translate: "off" | "input" | "inward" | "outward"
    ftInward,       \* flip-translate: the layers of the document written by the inward transform
    ftOffset,       \* flip-translate: the centring offset of the outward transform
    ftOutward,       \* flip-translate: the layers of the document written by the outward transform
    pvLayers,       \* preview: the layers of the final document, in paint order
    pvPc,           \* preview: "off" | "loop" | "done"
    pvIndex,        \* preview: the number of layers the loop has visited
    pvCanvas,       \* preview: the canvas raster [w, h, px]
    pvHiddenView,    \* preview: hidden_view
    trimIn,         \* trim: the raster at hand [w, h, px]
    trimSite,       \* trim: "none" | "final_preview" | "template_preview" | "trim_edges"
    trimPc,         \* trim: "off" | "input" | "done"
    trimSubject,    \* trim: the raster that is trimmed
    trimOut,         \* trim: the raster that results
    snInput,        \* sanitize: the argument, [none |-> BOOLEAN, s |-> code points]
    snPc,           \* sanitize: "off" | "input" | "returned" | "lowered"
    snOutput,        \* sanitize: the string returned
    ccKind,         \* concurrent calls: "off" | "generate_final_psd" | "save_template"
    ccClock,        \* concurrent calls: datetime.now() in whole milliseconds
    ccPc,           \* concurrent calls: position of each thread inside its call
    ccId,           \* concurrent calls: the identifier each thread computed
    ccFiles,        \* concurrent calls: artifact path (by identifier) -> thread whose result it holds, 0 = no file
    ccLocal,        \* concurrent calls: the index each thread loaded
    ccIndex,         \* concurrent calls: the index file, a set of <<identifier, owner>>
    ixOp,           \* template index: the operation each thread runs
    ixPc,           \* template index: "called" | "loaded" | "returned" for each thread
    ixLocal,        \* template index: the list each thread loaded
    ixStart,        \* template index: the index file before the two calls
    ixFile,         \* template index: the index file, a set of <<kind, template, item>> facts
    ixOverlap,       \* template index: history, a thread loaded while the other was between load and save
    nfName,         \* name field: the layer name, a sequence of character codes
    nfWriter,       \* name field: the writer that was called
    nfPc,           \* name field: "off" | "input" | "written" | "raised"
    nfOut,           \* name field: the bytes written for the name
    gnInput,        \* generation: force_resize, whether the sizes match, the component choice
    gnPc,           \* generation: "off" | "align" | "replace" | "transform" | "component" | "preview" | "returned"
    gnFiles,        \* generation: the files of this result id that exist
    gnReplace,      \* generation: what PSDReplacer.replace returned: "none" | "True" | "False"
    gnTransform,    \* generation: what transform() returned: "none" | "True" | "False"
    gnRan,          \* generation: the stages that have run
    gnExit,         \* generation: the exit taken, "none" while running
    gnResult,        \* generation: "none" | "success" | "failure"
    rpCanvas,       \* replacer save: <<template.width, template.height>>
    rpLayers,       \* replacer save: the layers collected by _write_replaced_psd
    rpPc,           \* replacer save: "off" | "collected" | "returned"
    rpFile,         \* replacer save: the bytes of the output file, <<>> if there is none
    rpReturn,        \* replacer save: what replace() returned: "none" | "True" | "False"
    sqDoc,          \* layer sequence: the layers of the input document, bottom first
    sqStage,        \* layer sequence: the stage that rewrote the document
    sqPc,           \* layer sequence: "off" | "input" | "written" | "failed"
    sqOut           \* layer sequence: the layer names of the output document, bottom first

pipeVars == <<doc, entry, pc, result, stepsRun, filesWritten, catalog,
              insideDoc, missingReport>>

encVars == <<encCanvas, encLayers, encWriter, encPc, encOut>>

cntVars == <<cntLayers, cntWriter, cntPc, cntField, cntRecords>>

resVars == <<resOrigin, resDoc, resStages>>

strokeVars == <<strokeAlpha, strokeWidth, strokeGen, strokePc, strokeBinary,
                strokeMask, strokeIter, strokeRing, strokeRgb, strokeResult>>

svVars == <<svLayers, svWidth, svPc, svPngs, svStroked, svOutcome, svFile>>

mkVars == <<mkA, mkB, mkPc, mkMask, mkAlpha>>

cutVars == <<cutPart, cutImpl, cutPc, cutOut>>

cropVars == <<cropView, cropPart, cropDelta, cropImpl, cropPc, cropOut>>

inwVars == <<inwLayers, inwPc, inwTransformed, inwCanvas, inwRecords>>

outwVars == <<outwCanvasIn, outwLayers, outwImpl, outwPc, outwCanvas, outwOffset, outwFinal>>

ftVars == <<ftLayers, ftPc, ftInward, ftOffset, ftOutward>>

pvVars == <<pvLayers, pvPc, pvIndex, pvCanvas, pvHiddenView>>

trimVars == <<trimIn, trimSite, trimPc, trimSubject, trimOut>>

snVars == <<snInput, snPc, snOutput>>

ccVars == <<ccKind, ccClock, ccPc, ccId, ccFiles, ccLocal, ccIndex>>

ixVars == <<ixOp, ixPc, ixLocal, ixStart, ixFile, ixOverlap>>

nfVars == <<nfName, nfWriter, nfPc, nfOut>>

gnVars == <<gnInput, gnPc, gnFiles, gnReplace, gnTransform, gnRan, gnExit, gnResult>>

rpVars == <<rpCanvas, rpLayers, rpPc, rpFile, rpReturn>>

sqVars == <<sqDoc, sqStage, sqPc, sqOut>>

vars == <<pipeVars, encVars, cntVars, resVars, strokeVars, svVars, mkVars, cutVars, cropVars, inwVars, outwVars, ftVars, pvVars, trimVars, snVars, ccVars, ixVars, nfVars, gnVars, rpVars, sqVars>>

PipeIdle ==
    /\ doc = <<>> /\ entry = "none" /\ pc = "off" /\ result = "none"
    /\ stepsRun = {} /\ filesWritten = {} /\ catalog = <<>>
    /\ insideDoc = <<>> /\ missingReport = {}

EncIdle ==
    /\ encCanvas = <<0, 0>> /\ encLayers = <<>> /\ encWriter = "none"
    /\ encPc = "off" /\ encOut = <<>>

CntIdle ==
    /\ cntLayers = 0 /\ cntWriter = "none" /\ cntPc = "off"
    /\ cntField = <<>> /\ cntRecords = 0

ResIdle ==
    /\ resOrigin = [present |-> FALSE] /\ resDoc = <<>> /\ resStages = <<>>

StrokeIdle ==
    /\ strokeAlpha = <<>> /\ strokeWidth = 0 /\ strokeGen = "none"
    /\ strokePc = "off" /\ strokeBinary = <<>> /\ strokeMask = <<>>
    /\ strokeIter = 0 /\ strokeRing = <<>>
    /\ strokeRgb = <<>> /\ strokeResult = <<>>

SvIdle ==
    /\ svLayers = <<>> /\ svWidth = 0 /\ svPc = "off"
    /\ svPngs = {} /\ svStroked = {} /\ svOutcome = "none" /\ svFile = FALSE

MkIdle ==
    /\ mkA = 0 /\ mkB = 0 /\ mkPc = "off" /\ mkMask = 0 /\ mkAlpha = 0

CutIdle ==
    /\ cutPart = [x1 |-> 0, y1 |-> 0, w |-> 0, h |-> 0, alpha |-> <<>>]
    /\ cutImpl = "none" /\ cutPc = "off"
    /\ cutOut = [x |-> 0, y |-> 0, w |-> 0, h |-> 0, px |-> <<>>]

CropIdle ==
    /\ cropView = [w |-> 0, h |-> 0, alpha |-> <<>>]
    /\ cropPart = [w |-> 0, h |-> 0, alpha |-> <<>>]
    /\ cropDelta = <<0, 0>> /\ cropImpl = "none" /\ cropPc = "off"
    /\ cropOut = [w |-> 0, h |-> 0, px |-> <<>>]

InwIdle ==
    /\ inwLayers = <<>> /\ inwPc = "off" /\ inwTransformed = <<>>
    /\ inwCanvas = <<0, 0>> /\ inwRecords = <<>>

OutwIdle ==
    /\ outwCanvasIn = <<0, 0>> /\ outwLayers = <<>> /\ outwImpl = "none" /\ outwPc = "off"
    /\ outwCanvas = <<0, 0>> /\ outwOffset = <<0, 0>> /\ outwFinal = <<>>

FtIdle ==
    /\ ftLayers = <<>> /\ ftPc = "off" /\ ftInward = <<>>
    /\ ftOffset = <<0, 0>> /\ ftOutward = <<>>

PvIdle ==
    /\ pvLayers = <<>> /\ pvPc = "off" /\ pvIndex = 0
    /\ pvCanvas = [w |-> 0, h |-> 0, px |-> <<>>] /\ pvHiddenView = FALSE

TrimIdle ==
    /\ trimIn = [w |-> 0, h |-> 0, px |-> <<>>] /\ trimSite = "none" /\ trimPc = "off"
    /\ trimSubject = [w |-> 0, h |-> 0, px |-> <<>>]
    /\ trimOut = [w |-> 0, h |-> 0, px |-> <<>>]

SnIdle ==
    /\ snInput = [none |-> TRUE, s |-> <<>>] /\ snPc = "off" /\ snOutput = <<>>

CcIdle ==
    /\ ccKind = "off" /\ ccClock = 0 /\ ccPc = <<>> /\ ccId = <<>>
    /\ ccFiles = <<>> /\ ccLocal = <<>> /\ ccIndex = {}

IxIdle ==
    /\ ixOp = <<>> /\ ixPc = <<>> /\ ixLocal = <<>> /\ ixStart = {} /\ ixFile = {}
    /\ ixOverlap = FALSE

NfIdle ==
    /\ nfName = <<>> /\ nfWriter = "none" /\ nfPc = "off" /\ nfOut = <<>>

GnIdle ==
    /\ gnInput = <<>> /\ gnPc = "off" /\ gnFiles = {} /\ gnReplace = "none" /\ gnTransform = "none"
    /\ gnRan = {} /\ gnExit = "none" /\ gnResult = "none"

RpIdle ==
    /\ rpCanvas = <<>> /\ rpLayers = <<>> /\ rpPc = "off" /\ rpFile = <<>> /\ rpReturn = "none"

SqIdle ==
    /\ sqDoc = <<>> /\ sqStage = "none" /\ sqPc = "off" /\ sqOut = <<>>

















-----------------------------------------------------------------------------
(* Character codes and names                                               *)

NUL == <<0>>
SPACE == <<32>>
TAB == <<9>>

Name_view == <<118, 105, 101, 119>>
Name_part1 == <<112, 97, 114, 116, 49>>
Name_part2 == <<112, 97, 114, 116, 50>>
Name_part3 == <<112, 97, 114, 116, 51>>
Name_part4 == <<112, 97, 114, 116, 52>>
Name_logo == <<108, 111, 103, 111>>
Name_unnamed_layer == <<117, 110, 110, 97, 109, 101, 100, 95, 108, 97, 121, 101, 114>>

\* str.strip() with no argument removes these code points (ASCII range and Latin-1)
IsSpace(c) == c \in {9, 10, 11, 12, 13, 28, 29, 30, 31, 32, 133, 160}

RECURSIVE LStrip(_)
LStrip(s) == IF s = <<>> THEN <<>>
             ELSE IF IsSpace(Head(s)) THEN LStrip(Tail(s)) ELSE s

RECURSIVE RStrip(_)
RStrip(s) == IF s = <<>> THEN <<>>
             ELSE IF IsSpace(s[Len(s)]) THEN RStrip(SubSeq(s, 1, Len(s) - 1)) ELSE s

Strip(s) == RStrip(LStrip(s))

\* a sanitize_name that does not trim the ends
sanitize_name_NoStrip(name) ==
    IF name = <<>> THEN Name_unnamed_layer
    ELSE LET noNul == SelectSeq(name, LAMBDA c : c # 0)
             kept == SelectSeq(noNul, LAMBDA c : c >= 32 \/ c \in {9, 10, 13})
         IN IF kept = <<>> THEN Name_unnamed_layer ELSE kept

\* utils/strings.py sanitize_name
sanitize_name(name) ==
    IF name = <<>> THEN Name_unnamed_layer
    ELSE LET noNul == SelectSeq(name, LAMBDA c : c # 0)
             kept == SelectSeq(noNul, LAMBDA c : c >= 32 \/ c \in {9, 10, 13})
             cleaned == Strip(kept)
         IN IF cleaned = <<>> THEN Name_unnamed_layer ELSE cleaned

\* str.lower() on the code points the model uses (ASCII letters)
LowerChar(c) == IF c >= 65 /\ c <= 90 THEN c + 32 ELSE c
Lower(s) == [i \in 1..Len(s) |-> LowerChar(s[i])]

UpperFirst(s) == [i \in 1..Len(s) |-> IF i = 1 THEN s[i] - 32 ELSE s[i]]


-----------------------------------------------------------------------------
(* Required-role lookup of each stage                                      *)

RoleNames == {Name_view, Name_part1, Name_part2, Name_part3, Name_part4}

\* mutant of Core_required_layers: the validation forgets the view role
Core_required_layers_NoView == {Name_part1, Name_part2, Name_part3, Name_part4}

\* PSDProcessorCore.__init__: self.required_layers
Core_required_layers == {Name_view, Name_part1, Name_part2, Name_part3, Name_part4}

\* InsideTransformer.transform: self.required_layers
Inside_required_layers == {Name_view, Name_part1, Name_part2, Name_part3, Name_part4}

\* IntegratedProcessor.__init__: self.required_layers
Integrated_required_layers == {Name_view, Name_part1, Name_part2, Name_part3, Name_part4}

\* PSDCropper.__init__: self.required_layers
Cropper_required_layers == {Name_view, Name_part1, Name_part2, Name_part3, Name_part4}

\* the set of role names found by "sanitize_name(layer.name).lower() in required"
FoundLayers(d, required) ==
    {Lower(sanitize_name(d[i])) : i \in 1..Len(d)} \cap required

\* PSDProcessorCore.validate_psd: the missing required layers
validate_psd_missing(d) == Core_required_layers \ FoundLayers(d, Core_required_layers)

\* InsideTransformer._detect_required_layers: the missing required layers
Inside_detect_missing(d) == Inside_required_layers \ FoundLayers(d, Inside_required_layers)

\* IntegratedProcessor._detect_layers: the missing required layers
Integrated_detect_missing(d) ==
    Integrated_required_layers \ FoundLayers(d, Integrated_required_layers)

\* PSDCropper._find_layer_by_name: getattr(layer, 'name') == name, no cleaning
Cropper_find_layer_by_name(d, name) == \E i \in 1..Len(d) : d[i] = name

\* PSDCropper._load_required_layers: the names it cannot find
Cropper_load_missing(d) ==
    {n \in Cropper_required_layers : ~Cropper_find_layer_by_name(d, n)}

\* name bytes as _write_layer_info writes them: encode('ascii')[:255]
AsciiEncodable(name) == \A i \in 1..Len(name) : name[i] < 128
PascalNameBytes(name) == SubSeq(name, 1, IF Len(name) < 255 THEN Len(name) ELSE 255)

\* InsideTransformer._create_transformed_layers: 'name': layer.name (raw)
Inside_written_names(d) == [i \in 1..Len(d) |-> PascalNameBytes(d[i])]

-----------------------------------------------------------------------------
(* Pipeline entry points                                                   *)

EntryPoints == {"save_template", "process_psd", "IntegratedProcessor.process",
                "InsideTransformer.transform"}

\* the variants of a role layer's name a document may carry
NameVariants(n) == {<<>>, n, UpperFirst(n), n \o NUL, SPACE \o n \o TAB}
FewVariants(n) == {<<>>, n, UpperFirst(n)}

\* a document: the role layers that are present (an empty variant = absent)
\* in paint order, optionally with one free-form layer on top
MakeDoc(v, p1, p2, p3, p4, extra) ==
    SelectSeq(<<v, p1, p2, p3, p4>>, LAMBDA n : n # <<>>)
        \o (IF extra THEN <<Name_logo>> ELSE <<>>)

PipeInit ==
    /\ \E v \in NameVariants(Name_view), p1 \in NameVariants(Name_part1),
          p2 \in FewVariants(Name_part2), p3 \in FewVariants(Name_part3),
          p4 \in FewVariants(Name_part4), extra \in BOOLEAN :
            doc = MakeDoc(v, p1, p2, p3, p4, extra)
    /\ entry = "none"
    /\ pc = "idle"
    /\ result = "none"
    /\ stepsRun = {}
    /\ filesWritten = {}
    /\ catalog = <<>>
    /\ insideDoc = <<>>
    /\ missingReport = {}
    /\ EncIdle /\ CntIdle /\ ResIdle /\ StrokeIdle /\ SvIdle /\ MkIdle /\ CutIdle /\ CropIdle /\ InwIdle /\ OutwIdle /\ FtIdle /\ PvIdle /\ TrimIdle /\ SnIdle /\ CcIdle /\ IxIdle /\ NfIdle /\ GnIdle /\ RpIdle /\ SqIdle

Return(r) == /\ pc' = "done"
             /\ result' = r

\* a caller invokes one of the entry points
Call(e) ==
    /\ pc = "idle"
    /\ entry' = e
    /\ pc' = CASE e = "save_template" -> "core_validate"
               [] e = "process_psd" -> "core_validate"
               [] e = "IntegratedProcessor.process" -> "ip_load"
               [] e = "InsideTransformer.transform" -> "it_validate"
    /\ UNCHANGED <<doc, result, stepsRun, filesWritten, catalog, insideDoc, missingReport>>

\* save_template / process_psd: is_valid, result = self.validate_psd(path)
CoreValidate ==
    /\ pc = "core_validate"
    /\ IF validate_psd_missing(doc) # {}
       THEN /\ Return("fail")
            /\ missingReport' = missingReport \cup {"validate_psd"}
       ELSE /\ pc' = IF entry = "save_template" THEN "st_copy" ELSE "ip_load"
            /\ UNCHANGED <<result, missingReport>>
    /\ UNCHANGED <<doc, entry, stepsRun, filesWritten, catalog, insideDoc>>

\* save_template: shutil.copy2 to the templates directory, preview image
SaveTemplateCopy ==
    /\ pc = "st_copy"
    /\ filesWritten' = filesWritten \cup {"template", "preview"}
    /\ pc' = "it_validate"
    /\ UNCHANGED <<doc, entry, result, stepsRun, catalog, insideDoc, missingReport>>

\* InsideTransformer.step1_validate_psd
InsideValidate ==
    /\ pc = "it_validate"
    /\ IF Inside_detect_missing(doc) # {}
       THEN /\ missingReport' = missingReport \cup {"InsideTransformer"}
            /\ IF entry = "save_template"
               THEN pc' = "st_index" /\ UNCHANGED result
               ELSE Return("fail")
       ELSE /\ pc' = "it_copy"
            /\ UNCHANGED <<result, missingReport>>
    /\ UNCHANGED <<doc, entry, stepsRun, filesWritten, catalog, insideDoc>>

\* InsideTransformer.step2_copy_psd: binary copy of the input to the output path
InsideCopy ==
    /\ pc = "it_copy"
    /\ stepsRun' = stepsRun \cup {"step2_copy_psd"}
    /\ filesWritten' = filesWritten \cup {"inside_transformed"}
    /\ insideDoc' = doc
    /\ pc' = "it_transform"
    /\ UNCHANGED <<doc, entry, result, catalog, missingReport>>

\* InsideTransformer.step3_analyze_layers and step4_transform_layers
InsideTransform ==
    /\ pc = "it_transform"
    /\ stepsRun' = stepsRun \cup {"step3_analyze_layers", "step4_transform_layers"}
    /\ IF \A i \in 1..Len(doc) : AsciiEncodable(doc[i])
       THEN /\ insideDoc' = Inside_written_names(doc)
            /\ IF entry = "save_template"
               THEN pc' = "st_crop" /\ UNCHANGED result
               ELSE Return("ok")
       ELSE /\ UNCHANGED insideDoc
            /\ IF entry = "save_template"
               THEN pc' = "st_index" /\ UNCHANGED result
               ELSE Return("fail")
    /\ UNCHANGED <<doc, entry, filesWritten, catalog, missingReport>>

\* _generate_restored_psd step 2: PSDCropper.crop_by_view on the transformed document
CropByView ==
    /\ pc = "st_crop"
    /\ stepsRun' = stepsRun \cup {"crop_by_view"}
    /\ \E pytoshopAvailable \in BOOLEAN :
        IF Cropper_load_missing(insideDoc) # {}
        THEN /\ missingReport' = missingReport \cup {"PSDCropper"}
             /\ UNCHANGED filesWritten
        ELSE /\ filesWritten' = IF pytoshopAvailable
                                THEN filesWritten \cup {"restored", "reference"}
                                ELSE filesWritten
             /\ UNCHANGED missingReport
    /\ pc' = "st_index"
    /\ UNCHANGED <<doc, entry, result, catalog, insideDoc>>

\* save_template: build the record, insert it first in the index, save
SaveTemplateIndex ==
    /\ pc = "st_index"
    /\ catalog' = <<[layers |-> [i \in 1..Len(doc) |-> sanitize_name(doc[i])],
                     restored |-> "restored" \in filesWritten]>> \o catalog
    /\ Return("ok")
    /\ UNCHANGED <<doc, entry, stepsRun, filesWritten, insideDoc, missingReport>>

\* IntegratedProcessor.load_and_validate: open both inputs, compare sizes, detect layers
IntegratedLoad ==
    /\ pc = "ip_load"
    /\ \E sizeMatch \in BOOLEAN :
        IF ~sizeMatch
        THEN Return("fail") /\ UNCHANGED missingReport
        ELSE IF Integrated_detect_missing(doc) # {}
             THEN /\ Return("fail")
                  /\ missingReport' = missingReport \cup {"IntegratedProcessor"}
             ELSE /\ pc' = "ip_transform"
                  /\ UNCHANGED <<result, missingReport>>
    /\ UNCHANGED <<doc, entry, stepsRun, filesWritten, catalog, insideDoc>>

\* IntegratedProcessor.replace_parts, transform_layers, save_final_psd
IntegratedTransform ==
    /\ pc = "ip_transform"
    /\ stepsRun' = stepsRun \cup {"replace_parts", "transform_layers"}
    /\ filesWritten' = filesWritten \cup {"processed"}
    /\ Return("ok")
    /\ UNCHANGED <<doc, entry, catalog, insideDoc, missingReport>>

PipeStep ==
    \/ \E e \in EntryPoints : Call(e)
    \/ CoreValidate
    \/ SaveTemplateCopy
    \/ InsideValidate
    \/ InsideCopy
    \/ InsideTransform
    \/ CropByView
    \/ SaveTemplateIndex
    \/ IntegratedLoad
    \/ IntegratedTransform

PipeNext == PipeStep /\ UNCHANGED <<encVars, cntVars, resVars, strokeVars, svVars, mkVars, cutVars, cropVars, inwVars, outwVars, ftVars, pvVars, trimVars, snVars, ccVars, ixVars, nfVars, gnVars, rpVars, sqVars>>

SpecPipeline == PipeInit /\ [][PipeNext]_vars


-----------------------------------------------------------------------------
(* Claims about the entry points                                            *)

\* the roles no layer of d carries, names compared after sanitizing and lower-casing
LackingRoles(d) == RoleNames \ {Lower(sanitize_name(d[i])) : i \in 1..Len(d)}

\* C1: whichever entry point is called, a document that lacks one of the five
\* role layers makes the call report failure, and until then no transform step
\* has run, no output document has been written and the catalog has no entry.
C1_MissingRoleFailsFirst ==
    (entry # "none" /\ LackingRoles(doc) # {}) =>
        /\ stepsRun = {}
        /\ filesWritten = {}
        /\ catalog = <<>>
        /\ pc # "done" => result = "none"
        /\ pc = "done" => result = "fail"

\* a call of save_template on a document without its view layer has returned
C1_Witness ==
    /\ entry = "save_template"
    /\ Name_view \in LackingRoles(doc)
    /\ Name_part1 \notin LackingRoles(doc)
    /\ pc = "done"
    /\ result = "fail"

\* C2: no stage reports a missing layer for a document that validate_psd accepts.
C2_NoMissingLayerAfterValidation ==
    validate_psd_missing(doc) = {} => missingReport = {}


-----------------------------------------------------------------------------
(* struct.pack: big-endian fields of fixed width                            *)

Max(a, b) == IF a >= b THEN a ELSE b
Min(a, b) == IF a <= b THEN a ELSE b

\* struct.pack('>B' / '>H' / '>h' / '>I', v) raises struct.error outside these ranges
FitsU8(v) == v >= 0 /\ v <= 255
FitsU16(v) == v >= 0 /\ v <= 65535
FitsI16(v) == v >= -32768 /\ v <= 32767
FitsU32(v) == v >= 0 /\ v \div 65536 <= 65535

PackU16(v) == <<(v \div 256) % 256, v % 256>>
PackI16(v) == PackU16(IF v < 0 THEN v + 65536 ELSE v)
PackU32(v) == <<(v \div 16777216) % 256, (v \div 65536) % 256, (v \div 256) % 256, v % 256>>

RECURSIVE Flatten(_)
Flatten(ss) ==
    IF ss = <<>> THEN <<>>
    ELSE IF Len(ss) = 1 THEN ss[1]
    ELSE LET half == Len(ss) \div 2
         IN Flatten(SubSeq(ss, 1, half)) \o Flatten(SubSeq(ss, half + 1, Len(ss)))

Zeros(n) == [i \in 1..n |-> 0]

Sig_8BPS == <<56, 66, 80, 83>>
Sig_8BIM == <<56, 66, 73, 77>>
Key_norm == <<110, 111, 114, 109>>

-----------------------------------------------------------------------------
(* Rasters: RGBA8 pixels, row-major; a pixel is <<r, g, b, a>>              *)

PixelAt(img, col, row) == img.px[row * img.w + col + 1]

\* Image.crop((0, 0, cw, ch)) for cw <= img.w and ch <= img.h
CropTopLeft(img, cw, ch) ==
    [w |-> cw, h |-> ch,
     px |-> [k \in 1..(cw * ch) |-> PixelAt(img, (k - 1) % cw, (k - 1) \div cw)]]

\* one channel plane of list(image.getdata())
ChannelPlane(img, idx) == [k \in 1..Len(img.px) |-> img.px[k][idx]]

-----------------------------------------------------------------------------
(* The layer encoder of InsideTransformer, PSDReplacer and                  *)
(* IntegratedProcessor (the three copies are the same code)                 *)

\* x = max(0, int(x))
ClampOrigin(v) == Max(0, v)

\* if x + w > canvas_width: w = max(1, canvas_width - x)
ClipExtent(x, w, canvasExtent) == IF x + w > canvasExtent THEN Max(1, canvasExtent - x) ELSE w

\* the bounds written into the layer record: <<top, left, bottom, right>>
RecordBounds(layer, cw, ch) ==
    LET x == ClampOrigin(layer.x)
        y == ClampOrigin(layer.y)
        w == ClipExtent(x, layer.image.w, cw)
        h == ClipExtent(y, layer.image.h, ch)
    IN <<y, x, y + h, x + w>>

\* name_bytes = layer['name'].encode('ascii')[:255]
NameBytesAscii(name) == PascalNameBytes(name)

\* padding = (4 - (total_name_len % 4)) % 4
NamePadding(nameLen) == (4 - ((1 + nameLen) % 4)) % 4

\* the record with the placeholder of the extra-data length left in place
LayerRecord_Placeholder(layer, cw, ch) ==
    LET b == RecordBounds(layer, cw, ch)
        w == b[4] - b[2]
        h == b[3] - b[1]
        channel_size == w * h + 2
        name_bytes == NameBytesAscii(layer.name)
        padding == NamePadding(Len(name_bytes))
        extra == PackU32(0) \o PackU32(0) \o <<Len(name_bytes)>> \o name_bytes \o Zeros(padding)
    IN PackU32(b[1]) \o PackU32(b[2]) \o PackU32(b[3]) \o PackU32(b[4])
       \o PackU16(4)
       \o PackI16(-1) \o PackU32(channel_size)
       \o PackI16(0) \o PackU32(channel_size)
       \o PackI16(1) \o PackU32(channel_size)
       \o PackI16(2) \o PackU32(channel_size)
       \o Sig_8BIM \o Key_norm
       \o <<255, 0, 0, 0>>
       \o PackU32(0)
       \o extra

\* one layer record of _write_layer_info / _write_layers
LayerRecord(layer, cw, ch) ==
    LET b == RecordBounds(layer, cw, ch)
        w == b[4] - b[2]
        h == b[3] - b[1]
        channel_size == w * h + 2
        name_bytes == NameBytesAscii(layer.name)
        padding == NamePadding(Len(name_bytes))
        extra == PackU32(0) \o PackU32(0) \o <<Len(name_bytes)>> \o name_bytes \o Zeros(padding)
    IN PackU32(b[1]) \o PackU32(b[2]) \o PackU32(b[3]) \o PackU32(b[4])
       \o PackU16(4)
       \o PackI16(-1) \o PackU32(channel_size)
       \o PackI16(0) \o PackU32(channel_size)
       \o PackI16(1) \o PackU32(channel_size)
       \o PackI16(2) \o PackU32(channel_size)
       \o Sig_8BIM \o Key_norm
       \o <<255, 0, 0, 0>>
       \o PackU32(Len(extra))
       \o extra

\* _write_layer_channels / _write_layer_data: the four channels of one layer,
\* each as the bytes written for it (marker, then the raw plane)
LayerChannels(layer, cw, ch) ==
    LET x == ClampOrigin(layer.x)
        y == ClampOrigin(layer.y)
    IN IF x >= cw \/ y >= ch
       THEN <<PackU16(0), PackU16(0), PackU16(0), PackU16(0)>>
       ELSE LET crop_width == Min(layer.image.w, cw - x)
                crop_height == Min(layer.image.h, ch - y)
                image == IF crop_width # layer.image.w \/ crop_height # layer.image.h
                         THEN CropTopLeft(layer.image, crop_width, crop_height)
                         ELSE layer.image
            IN <<PackU16(0) \o ChannelPlane(image, 4),
                 PackU16(0) \o ChannelPlane(image, 1),
                 PackU16(0) \o ChannelPlane(image, 2),
                 PackU16(0) \o ChannelPlane(image, 3)>>

\* the layer-info block: length, count, records, channel data
LayerInfo(layers, cw, ch) ==
    LET body == PackI16(-Len(layers))
                \o Flatten([i \in 1..Len(layers) |-> LayerRecord(layers[i], cw, ch)])
                \o Flatten([i \in 1..Len(layers) |-> Flatten(LayerChannels(layers[i], cw, ch))])
    IN PackU32(Len(body)) \o body

\* does _write_layer_info raise?  (the count, the name encoding)
LayerInfoRaises(layers) ==
    \/ ~FitsI16(-Len(layers))
    \/ \E i \in 1..Len(layers) : ~AsciiEncodable(layers[i].name)


-----------------------------------------------------------------------------
(* Composite image of InsideTransformer / PSDReplacer / IntegratedProcessor *)

\* Pillow's DIV255 and BLEND of Image.paste(im, box, mask)
DIV255(a) == LET t == a + 128 IN ((t \div 256) + t) \div 256
Blend(mask, in1, in2) == DIV255(in1 * (255 - mask) + in2 * mask)

\* paste with an RGBA mask blends all four bands by the mask's alpha
PastePixel(dst, src) == [i \in 1..4 |-> Blend(src[4], dst[i], src[i])]

\* Image.new('RGBA', size, (255, 255, 255, 0))
CompositeBackground == <<255, 255, 255, 0>>

\* the composite pixel at canvas position (cx, cy) after pasting the first n layers
RECURSIVE CompositePixel(_, _, _, _, _, _)
CompositePixel(layers, n, cx, cy, cw, ch) ==
    IF n = 0 THEN CompositeBackground
    ELSE LET below == CompositePixel(layers, n - 1, cx, cy, cw, ch)
             layer == layers[n]
             x == ClampOrigin(layer.x)
             y == ClampOrigin(layer.y)
         IN IF /\ x < cw /\ y < ch
               /\ cx >= x /\ cx < x + layer.image.w
               /\ cy >= y /\ cy < y + layer.image.h
            THEN PastePixel(below, PixelAt(layer.image, cx - x, cy - y))
            ELSE below

\* _write_composite_image: the four planes R, G, B, A of the composite
CompositeImage(layers, cw, ch) ==
    LET pixels == [k \in 1..(cw * ch) |->
                      CompositePixel(layers, Len(layers), (k - 1) % cw, (k - 1) \div cw, cw, ch)]
    IN Flatten([c \in 1..4 |-> [k \in 1..(cw * ch) |-> pixels[k][c]]])

-----------------------------------------------------------------------------
(* Resolution metadata (image resource 1005)                                *)

\* a resolution: h_res and v_res are the floats of the code, kept exactly as
\* <<whole, n>> for the value whole + n/65536; the four units are integers.
\* The default dictionary of _extract_resolution_from_psd: 72.0 DPI, units 1
\* (a missing unit key is read with .get(key, 1) by the writer)
DefaultResolution ==
    [h_res |-> <<72, 0>>, v_res |-> <<72, 0>>,
     h_res_unit |-> 1, v_res_unit |-> 1, width_unit |-> 1, height_unit |-> 1]

\* h_res = h_res_fixed / 65536.0
FloatOf(fixed) == <<fixed \div 65536, fixed % 65536>>

\* h_res_fixed = int(h_res * 65536)
FixedOf(q) == q[1] * 65536 + q[2]

\* are n bytes available at position p?  (a short read makes struct.unpack raise)
Avail(s, p, n) == p >= 1 /\ p + n - 1 <= Len(s)

\* the while loop of _extract_resolution_from_psd, the file position at byte p
RECURSIVE ScanForResolution(_, _, _)
ScanForResolution(s, p, stop) ==
    IF ~(p < stop) THEN DefaultResolution
    ELSE IF ~Avail(s, p, 4) \/ [i \in 1..4 |-> s[p + i - 1]] # Sig_8BIM THEN DefaultResolution
    ELSE IF ~Avail(s, p + 4, 3) THEN DefaultResolution
    ELSE LET resource_id == s[p + 4] * 256 + s[p + 5]
             name_len == s[p + 6]
             q == p + 7 + name_len + (IF (name_len + 1) % 2 # 0 THEN 1 ELSE 0)
         IN IF ~Avail(s, q, 4) THEN DefaultResolution
            ELSE LET data_len == ((s[q] * 256 + s[q + 1]) * 256 + s[q + 2]) * 256 + s[q + 3]
                     d == q + 4
                 IN IF resource_id = 1005
                    THEN IF ~Avail(s, d, 16) THEN DefaultResolution
                         ELSE [h_res |-> FloatOf(((s[d] * 256 + s[d + 1]) * 256 + s[d + 2]) * 256 + s[d + 3]),
                               h_res_unit |-> s[d + 4] * 256 + s[d + 5],
                               width_unit |-> s[d + 6] * 256 + s[d + 7],
                               v_res |-> FloatOf(((s[d + 8] * 256 + s[d + 9]) * 256 + s[d + 10]) * 256 + s[d + 11]),
                               v_res_unit |-> s[d + 12] * 256 + s[d + 13],
                               height_unit |-> s[d + 14] * 256 + s[d + 15]]
                    ELSE ScanForResolution(s, d + data_len + (IF data_len % 2 # 0 THEN 1 ELSE 0), stop)

\* _extract_resolution_from_psd on the bytes of a file
extract_resolution_from_psd(s) ==
    IF ~Avail(s, 1, 4) \/ [i \in 1..4 |-> s[i]] # Sig_8BPS THEN DefaultResolution
    ELSE IF ~Avail(s, 27, 4) THEN DefaultResolution
    ELSE LET color_mode_len == ((s[27] * 256 + s[28]) * 256 + s[29]) * 256 + s[30]
             r == 31 + color_mode_len
         IN IF ~Avail(s, r, 4) THEN DefaultResolution
            ELSE LET resources_len == ((s[r] * 256 + s[r + 1]) * 256 + s[r + 2]) * 256 + s[r + 3]
                 IN ScanForResolution(s, r + 4, r + 4 + resources_len)

\* _create_resolution_resource
create_resolution_resource(r) ==
    LET data == PackU32(FixedOf(r.h_res)) \o PackU16(r.h_res_unit) \o PackU16(r.width_unit)
                \o PackU32(FixedOf(r.v_res)) \o PackU16(r.v_res_unit) \o PackU16(r.height_unit)
    IN Sig_8BIM \o PackU16(1005) \o <<0>> \o <<0>>
       \o PackU32(Len(data)) \o data
       \o (IF Len(data) % 2 # 0 THEN <<0>> ELSE <<>>)

-----------------------------------------------------------------------------
(* Whole documents                                                          *)

\* the 26-byte file header
FileHeader(cw, ch) ==
    Sig_8BPS \o PackU16(1) \o Zeros(6) \o PackU16(4)
    \o PackU32(ch) \o PackU32(cw) \o PackU16(8) \o PackU16(3)

\* InsideTransformer._write_transformed_psd (also BinaryPSDTransformer's)
Inside_write_psd(layers, cw, ch, resolution) ==
    LET resolution_resource == create_resolution_resource(resolution)
        layer_data == LayerInfo(layers, cw, ch)
    IN FileHeader(cw, ch)
       \o PackU32(0)
       \o PackU32(Len(resolution_resource)) \o resolution_resource
       \o PackU32(Len(layer_data)) \o layer_data
       \o PackU16(0) \o CompositeImage(layers, cw, ch)

\* BinaryPSDTransformer._write_transformed_psd: the same writer, outward
Outside_write_psd(layers, cw, ch, resolution) ==
    LET resolution_resource == create_resolution_resource(resolution)
        layer_data == LayerInfo(layers, cw, ch)
    IN FileHeader(cw, ch)
       \o PackU32(0)
       \o PackU32(Len(resolution_resource)) \o resolution_resource
       \o PackU32(Len(layer_data)) \o layer_data
       \o PackU16(0) \o CompositeImage(layers, cw, ch)

\* PSDReplacer._save_psd / IntegratedProcessor.save_final_psd: empty resources
Replacer_save_psd(layers, cw, ch) ==
    LET layer_data == LayerInfo(layers, cw, ch)
    IN FileHeader(cw, ch)
       \o PackU32(0)
       \o PackU32(0)
       \o PackU32(Len(layer_data)) \o layer_data
       \o PackU16(0) \o CompositeImage(layers, cw, ch)

-----------------------------------------------------------------------------
(* PSDProcessorCore._create_layered_psd_data                                *)

\* layer['name'].encode('utf-8') for code points below 2048
Utf8(name) ==
    Flatten([i \in 1..Len(name) |->
        IF name[i] < 128 THEN <<name[i]>>
        ELSE <<192 + (name[i] \div 64), 128 + (name[i] % 64)>>])

\* x = max(0, min(x, width)); w = min(w, width - x) if x < width else 1
Core_RecordBounds(layer, width, height) ==
    LET x == Max(0, Min(layer.x, width))
        y == Max(0, Min(layer.y, height))
        w == IF x < width THEN Min(layer.image.w, width - x) ELSE 1
        h == IF y < height THEN Min(layer.image.h, height - y) ELSE 1
    IN <<y, x, y + h, x + w>>

\* padded_length = (name_length + 4) & ~3
Core_PaddedLength(name_length) == ((name_length + 4) \div 4) * 4

Core_LayerRecord(layer, width, height) ==
    LET b == Core_RecordBounds(layer, width, height)
        w == b[4] - b[2]
        h == b[3] - b[1]
        channel_size == w * h + 2
        layer_name == Utf8(layer.name)
        name_length == Len(layer_name)
        extra == PackU32(0) \o PackU32(0) \o <<name_length>> \o layer_name
                 \o Zeros(Core_PaddedLength(name_length) - name_length - 1)
    IN PackU32(b[1]) \o PackU32(b[2]) \o PackU32(b[3]) \o PackU32(b[4])
       \o PackU16(4)
       \o PackI16(-1) \o PackU32(channel_size)
       \o PackI16(0) \o PackU32(channel_size)
       \o PackI16(1) \o PackU32(channel_size)
       \o PackI16(2) \o PackU32(channel_size)
       \o Sig_8BIM \o Key_norm
       \o <<255, 0, (IF layer.visible THEN 1 ELSE 0), 0>>
       \o PackU32(Len(extra))
       \o extra

\* the channel-data loop: the position is not clamped here
Core_LayerChannels(layer, width, height) ==
    LET w == IF layer.x < width THEN Min(layer.image.w, width - layer.x) ELSE 1
        h == IF layer.y < height THEN Min(layer.image.h, height - layer.y) ELSE 1
    IN IF w > 0 /\ h > 0
       THEN LET img == IF <<layer.image.w, layer.image.h>> # <<w, h>>
                       THEN CropTopLeft(layer.image, w, h)
                       ELSE layer.image
            IN <<PackU16(0) \o ChannelPlane(img, 4),
                 PackU16(0) \o ChannelPlane(img, 1),
                 PackU16(0) \o ChannelPlane(img, 2),
                 PackU16(0) \o ChannelPlane(img, 3)>>
       ELSE <<>>

Core_create_layered_psd_data(layers, width, height) ==
    LET layer_data == PackI16(-Len(layers))
                      \o Flatten([i \in 1..Len(layers) |-> Core_LayerRecord(layers[i], width, height)])
                      \o Flatten([i \in 1..Len(layers) |->
                                    Flatten(Core_LayerChannels(layers[i], width, height))])
        lam_bytes == PackU32(Len(layer_data)) \o layer_data \o PackU32(0)
    IN FileHeader(width, height)
       \o PackU32(0)
       \o PackU32(0)
       \o PackU32(Len(lam_bytes)) \o lam_bytes
       \o PackU16(0) \o Zeros(4 * width * height)

\* does _create_layered_psd_data raise?  (the count, the name length byte)
Core_Raises(layers) ==
    \/ ~FitsI16(-Len(layers))
    \/ \E i \in 1..Len(layers) : ~FitsU8(Len(Utf8(layers[i].name)))


-----------------------------------------------------------------------------
(* A reader that follows the documented layout, skipping by length fields   *)

At(s, i) == IF i >= 1 /\ i <= Len(s) THEN s[i] ELSE 0
RdU16(s, p) == At(s, p) * 256 + At(s, p + 1)
RdI16(s, p) == LET v == RdU16(s, p) IN IF v >= 32768 THEN v - 65536 ELSE v
RdU32(s, p) == ((At(s, p) * 256 + At(s, p + 1)) * 256 + At(s, p + 2)) * 256 + At(s, p + 3)
RdBytes(s, p, n) == [i \in 1..n |-> At(s, p + i - 1)]

\* one layer record starting at byte p
ReadRecord(s, p) ==
    LET nch == RdU16(s, p + 16)
        afterCh == p + 18 + 6 * nch
        extraLenPos == afterCh + 12
        extraLen == RdU32(s, extraLenPos)
        extraStart == extraLenPos + 4
        maskLen == RdU32(s, extraStart)
        rangesPos == extraStart + 4 + maskLen
        rangesLen == RdU32(s, rangesPos)
        namePos == rangesPos + 4 + rangesLen
        nameLen == At(s, namePos)
    IN [top |-> RdU32(s, p), left |-> RdU32(s, p + 4),
        bottom |-> RdU32(s, p + 8), right |-> RdU32(s, p + 12),
        channelIds |-> [c \in 1..nch |-> RdI16(s, p + 18 + 6 * (c - 1))],
        dataSizes |-> [c \in 1..nch |-> RdU32(s, p + 20 + 6 * (c - 1))],
        name |-> RdBytes(s, namePos + 1, nameLen),
        extraLen |-> extraLen,
        extraStart |-> extraStart,
        next |-> extraStart + extraLen]

RECURSIVE ReadRecords(_, _, _)
ReadRecords(s, p, n) ==
    IF n = 0 THEN <<>>
    ELSE LET r == ReadRecord(s, p) IN <<r>> \o ReadRecords(s, r.next, n - 1)

\* the planes of one layer starting at byte p: per channel a 2-byte marker
\* and width*height raw bytes
ReadPlanes(s, p, rec) ==
    LET size == (rec.right - rec.left) * (rec.bottom - rec.top)
    IN [c \in 1..Len(rec.channelIds) |-> RdBytes(s, p + (c - 1) * (size + 2) + 2, size)]

PlanesLength(rec) ==
    Len(rec.channelIds) * ((rec.right - rec.left) * (rec.bottom - rec.top) + 2)

RECURSIVE ReadAllPlanes(_, _, _)
ReadAllPlanes(s, p, recs) ==
    IF recs = <<>> THEN <<>>
    ELSE <<ReadPlanes(s, p, Head(recs))>>
         \o ReadAllPlanes(s, p + PlanesLength(Head(recs)), Tail(recs))

\* index of channel id in a record's channel list (0 if absent)
ChannelIndex(rec, id) ==
    IF \E c \in 1..Len(rec.channelIds) : rec.channelIds[c] = id
    THEN CHOOSE c \in 1..Len(rec.channelIds) : rec.channelIds[c] = id
    ELSE 0

\* the RGBA pixels of a decoded layer
PixelsOf(rec, planes) ==
    LET size == (rec.right - rec.left) * (rec.bottom - rec.top)
        plane(id) == planes[ChannelIndex(rec, id)]
    IN [k \in 1..size |-> <<plane(0)[k], plane(1)[k], plane(2)[k], plane(-1)[k]>>]

ReadDocument(s) ==
    LET height == RdU32(s, 15)
        width == RdU32(s, 19)
        colorLen == RdU32(s, 27)
        resPos == 31 + colorLen
        resLen == RdU32(s, resPos)
        lamPos == resPos + 4 + resLen
        lamLen == RdU32(s, lamPos)
        infoLen == RdU32(s, lamPos + 4)
        count == RdI16(s, lamPos + 8)
        n == IF count < 0 THEN -count ELSE count
        recs == ReadRecords(s, lamPos + 10, n)
        dataPos == IF n = 0 THEN lamPos + 10 ELSE recs[n].next
        planes == ReadAllPlanes(s, dataPos, recs)
        compositePos == lamPos + 4 + lamLen
    IN [signature |-> RdBytes(s, 1, 4),
        width |-> width, height |-> height,
        resources |-> RdBytes(s, resPos + 4, resLen),
        count |-> count,
        infoLen |-> infoLen, infoStart |-> lamPos + 8,
        lamLen |-> lamLen, lamStart |-> lamPos + 4,
        records |-> recs,
        layers |-> [i \in 1..n |->
                      [name |-> recs[i].name,
                       left |-> recs[i].left, top |-> recs[i].top,
                       right |-> recs[i].right, bottom |-> recs[i].bottom,
                       px |-> PixelsOf(recs[i], planes[i])]],
        compositePos |-> compositePos,
        composite |-> RdBytes(s, compositePos + 2, 4 * width * height),
        length |-> Len(s)]


-----------------------------------------------------------------------------
(* The encoder under test: every writer applied to bounded layer lists      *)

MaxCanvas == 2
MaxRaster == 2
MaxLayers == 2

Writers == {"InsideTransformer", "PSDReplacer", "PSDProcessorCore"}

Palette == <<<<200, 10, 20, 255>>, <<30, 40, 50, 128>>, <<0, 0, 0, 0>>>>

\* a w x h raster whose neighbouring pixels differ
PatternImage(w, h, p) ==
    [w |-> w, h |-> h,
     px |-> [k \in 1..(w * h) |-> Palette[((((k - 1) % w) + 2 * ((k - 1) \div w) + p) % 3) + 1]]]

Name_win == <<119, 105, 110>>
Name_e_acute == <<233>>

LayerKinds ==
    <<[name |-> Name_view, p |-> 0, visible |-> TRUE],
      [name |-> Name_part1, p |-> 1, visible |-> TRUE],
      [name |-> Name_win, p |-> 2, visible |-> FALSE],
      [name |-> Name_e_acute, p |-> 1, visible |-> TRUE]>>

MakeLayer(kind, x, y, w, h) ==
    [name |-> LayerKinds[kind].name, x |-> x, y |-> y,
     image |-> PatternImage(w, h, LayerKinds[kind].p),
     visible |-> LayerKinds[kind].visible]

Canvases == {<<MaxCanvas, MaxCanvas>>, <<MaxCanvas, 1>>, <<1, MaxCanvas>>}

\* the layers that may lie on top of the first one
Overlays(cw, ch) ==
    {MakeLayer(2, 0, 0, 1, 1), MakeLayer(1, cw - 1, ch - 1, 1, 1)}

RECURSIVE OverlayLists(_, _, _)
OverlayLists(cw, ch, n) ==
    IF n = 0 THEN {<<>>}
    ELSE LET shorter == OverlayLists(cw, ch, n - 1)
         IN shorter \cup {Append(l, o) : l \in {t \in shorter : Len(t) = n - 1},
                                          o \in Overlays(cw, ch)}

EncInit ==
    /\ PipeIdle /\ CntIdle /\ ResIdle /\ StrokeIdle /\ SvIdle /\ MkIdle /\ CutIdle /\ CropIdle /\ InwIdle /\ OutwIdle /\ FtIdle /\ PvIdle /\ TrimIdle /\ SnIdle /\ CcIdle /\ IxIdle /\ NfIdle /\ GnIdle /\ RpIdle /\ SqIdle
    /\ \E c \in Canvases :
        /\ encCanvas = c
        /\ \/ encLayers = <<>>
           \/ \E kind \in 1..Len(LayerKinds),
                 x \in (0 - MaxRaster)..(c[1] + 1),
                 y \in {-1, 0, c[2] - 1, c[2]},
                 w \in 1..MaxRaster, h \in {1, MaxRaster},
                 rest \in OverlayLists(c[1], c[2], MaxLayers - 1) :
                    encLayers = <<MakeLayer(kind, x, y, w, h)>> \o rest
    /\ encWriter = "none"
    /\ encPc = "input"
    /\ encOut = <<>>

\* InsideTransformer._write_transformed_psd on the layer list
EncodeInside ==
    /\ encPc = "input"
    /\ encWriter' = "InsideTransformer"
    /\ IF LayerInfoRaises(encLayers)
       THEN encPc' = "raised" /\ encOut' = <<>>
       ELSE /\ encPc' = "encoded"
            /\ encOut' = Inside_write_psd(encLayers, encCanvas[1], encCanvas[2], DefaultResolution)
    /\ UNCHANGED <<encCanvas, encLayers>>

\* PSDReplacer._save_psd on the layer list
EncodeReplacer ==
    /\ encPc = "input"
    /\ encWriter' = "PSDReplacer"
    /\ IF LayerInfoRaises(encLayers)
       THEN encPc' = "raised" /\ encOut' = <<>>
       ELSE /\ encPc' = "encoded"
            /\ encOut' = Replacer_save_psd(encLayers, encCanvas[1], encCanvas[2])
    /\ UNCHANGED <<encCanvas, encLayers>>

\* PSDProcessorCore._create_layered_psd_data on the layer list
EncodeCore ==
    /\ encPc = "input"
    /\ encWriter' = "PSDProcessorCore"
    /\ IF Core_Raises(encLayers)
       THEN encPc' = "raised" /\ encOut' = <<>>
       ELSE /\ encPc' = "encoded"
            /\ encOut' = Core_create_layered_psd_data(encLayers, encCanvas[1], encCanvas[2])
    /\ UNCHANGED <<encCanvas, encLayers>>

EncStep ==
    \/ EncodeInside
    \/ EncodeReplacer
    \/ EncodeCore

EncNext == EncStep /\ UNCHANGED <<pipeVars, cntVars, resVars, strokeVars, svVars, mkVars, cutVars, cropVars, inwVars, outwVars, ftVars, pvVars, trimVars, snVars, ccVars, ixVars, nfVars, gnVars, rpVars, sqVars>>

SpecEncoder == EncInit /\ [][EncNext]_vars


-----------------------------------------------------------------------------
(* Claims about the layer encoder                                           *)

Encoded == encPc = "encoded"

SharedWriter == encWriter \in {"InsideTransformer", "PSDReplacer"}

\* the channel byte strings the writer in encWriter emitted for layer i
ChannelsWritten(i) ==
    IF encWriter = "PSDProcessorCore"
    THEN Core_LayerChannels(encLayers[i], encCanvas[1], encCanvas[2])
    ELSE LayerChannels(encLayers[i], encCanvas[1], encCanvas[2])

\* layer i lies wholly on the canvas
InsideCanvas(i) ==
    LET l == encLayers[i]
    IN /\ l.x >= 0 /\ l.x + l.image.w <= encCanvas[1]
       /\ l.y >= 0 /\ l.y + l.image.h <= encCanvas[2]

\* no part of layer i is on the canvas
OutsideCanvas(i) ==
    LET l == encLayers[i]
    IN \/ l.x >= encCanvas[1] \/ l.y >= encCanvas[2]
       \/ l.x + l.image.w <= 0 \/ l.y + l.image.h <= 0

\* decoded layer i has the name, the box and the pixels of input layer i
SameLayer(decoded, i) ==
    LET l == encLayers[i]
        d == decoded.layers[i]
    IN /\ d.name = l.name
       /\ d.left = l.x /\ d.top = l.y
       /\ d.right = l.x + l.image.w /\ d.bottom = l.y + l.image.h
       /\ d.px = l.image.px

\* C3: decoding what the shared layer encoder wrote gives back every layer's
\* name, bounding box and RGBA pixels, wherever the layer lies.
C3_RoundTrip ==
    (Encoded /\ SharedWriter) =>
        LET decoded == ReadDocument(encOut)
        IN /\ Len(decoded.layers) = Len(encLayers)
           /\ \A i \in 1..Len(encLayers) : SameLayer(decoded, i)

\* the round trip of lists whose layers all lie wholly on the canvas
RoundTripOnCanvas ==
    (Encoded /\ SharedWriter /\ \A i \in 1..Len(encLayers) : InsideCanvas(i)) =>
        LET decoded == ReadDocument(encOut)
        IN /\ Len(decoded.layers) = Len(encLayers)
           /\ decoded.width = encCanvas[1] /\ decoded.height = encCanvas[2]
           /\ \A i \in 1..Len(encLayers) : SameLayer(decoded, i)

\* C4: every emitted record has 0 <= left <= right <= canvasWidth and
\* 0 <= top <= bottom <= canvasHeight.
C4_BoundsWithinCanvas ==
    Encoded =>
        LET recs == ReadDocument(encOut).records
        IN \A i \in 1..Len(recs) :
            /\ 0 <= recs[i].left /\ recs[i].left <= recs[i].right
            /\ recs[i].right <= encCanvas[1]
            /\ 0 <= recs[i].top /\ recs[i].top <= recs[i].bottom
            /\ recs[i].bottom <= encCanvas[2]

\* C5: each channel's declared dataSize is 2 plus the raw bytes written for
\* that channel, and is (right-left)*(bottom-top)+2 of the record.
C5_DataSizeMatchesBytes ==
    (Encoded /\ SharedWriter) =>
        LET recs == ReadDocument(encOut).records
        IN \A i \in 1..Len(recs) : \A c \in 1..4 :
            /\ recs[i].dataSizes[c]
                 = (recs[i].right - recs[i].left) * (recs[i].bottom - recs[i].top) + 2
            /\ recs[i].dataSizes[c] = Len(ChannelsWritten(i)[c])

\* C6: with encodable names the encoder never raises, writes one record per
\* layer, and writes only four 2-byte zero markers for a layer that lies
\* wholly outside the canvas.
C6_TotalOnGeometry ==
    (encPc \in {"encoded", "raised"}
        /\ \A i \in 1..Len(encLayers) : AsciiEncodable(encLayers[i].name)) =>
        /\ Encoded
        /\ Len(ReadDocument(encOut).records) = Len(encLayers)
        /\ \A i \in 1..Len(encLayers) :
              OutsideCanvas(i) =>
                  ChannelsWritten(i) = <<PackU16(0), PackU16(0), PackU16(0), PackU16(0)>>

\* source-over of a straight-alpha pixel on another, rounded to nearest
RoundDiv(a, b) == (2 * a + b) \div (2 * b)

Over(dst, src) ==
    LET as == src[4]
        ad == RoundDiv(dst[4] * (255 - as), 255)
        ao == as + ad
    IN IF ao = 0 THEN <<0, 0, 0, 0>>
       ELSE <<RoundDiv(src[1] * as + dst[1] * ad, ao),
              RoundDiv(src[2] * as + dst[2] * ad, ao),
              RoundDiv(src[3] * as + dst[3] * ad, ao),
              ao>>

\* the flattening at canvas pixel (cx, cy) of the first n input layers
RECURSIVE Flattened(_, _, _)
Flattened(n, cx, cy) ==
    IF n = 0 THEN <<0, 0, 0, 0>>
    ELSE LET below == Flattened(n - 1, cx, cy)
             l == encLayers[n]
         IN IF /\ cx >= l.x /\ cx < l.x + l.image.w
               /\ cy >= l.y /\ cy < l.y + l.image.h
            THEN Over(below, PixelAt(l.image, cx - l.x, cy - l.y))
            ELSE below

Near(a, b) == a - b <= 1 /\ b - a <= 1

\* C7: the composite section holds, in planes R, G, B, A, the layers
\* alpha-composited in paint order on a transparent canvas (alpha at every
\* pixel, colour wherever the result is not fully transparent; one level of
\* rounding is allowed).
C7_CompositeIsFlattening ==
    Encoded =>
        LET decoded == ReadDocument(encOut)
            n == encCanvas[1] * encCanvas[2]
        IN /\ decoded.length = decoded.compositePos + 1 + 4 * n
           /\ \A k \in 1..n :
                LET want == Flattened(Len(encLayers), (k - 1) % encCanvas[1],
                                      (k - 1) \div encCanvas[1])
                IN /\ Near(decoded.composite[3 * n + k], want[4])
                   /\ want[4] > 0 =>
                        \A c \in 1..3 : Near(decoded.composite[(c - 1) * n + k], want[c])


-----------------------------------------------------------------------------
(* The layer count field and the record loop                                *)

\* largest value of a signed 16-bit field
Int16Max == 32767

\* list lengths tried: 0..MaxShortList, and Int16Max-1 .. Int16Max+MaxOverflow
MaxShortList == 3
MaxOverflow == 3

ListLengths == (0..MaxShortList) \cup ((Int16Max - 1)..(Int16Max + MaxOverflow))

CountWriters == {"InsideTransformer", "PSDProcessorCore"}

CntInit ==
    /\ PipeIdle /\ EncIdle /\ ResIdle /\ StrokeIdle /\ SvIdle /\ MkIdle /\ CutIdle /\ CropIdle /\ InwIdle /\ OutwIdle /\ FtIdle /\ PvIdle /\ TrimIdle /\ SnIdle /\ CcIdle /\ IxIdle /\ NfIdle /\ GnIdle /\ RpIdle /\ SqIdle
    /\ cntLayers \in ListLengths
    /\ cntWriter \in CountWriters
    /\ cntPc = "start"
    /\ cntField = <<>>
    /\ cntRecords = 0

\* f.write(struct.pack('>h', -len(layers_data)))
WriteCount ==
    /\ cntPc = "start"
    /\ IF FitsI16(-cntLayers)
       THEN cntField' = PackI16(-cntLayers) /\ cntPc' = "records"
       ELSE cntField' = <<>> /\ cntPc' = "raised"
    /\ UNCHANGED <<cntLayers, cntWriter, cntRecords>>

\* one iteration of "for layer in layers_data": one record
WriteRecord ==
    /\ cntPc = "records"
    /\ cntRecords < cntLayers
    /\ cntRecords' = cntRecords + 1
    /\ UNCHANGED <<cntLayers, cntWriter, cntPc, cntField>>

\* the loop is exhausted
RecordsDone ==
    /\ cntPc = "records"
    /\ cntRecords = cntLayers
    /\ cntPc' = "done"
    /\ UNCHANGED <<cntLayers, cntWriter, cntField, cntRecords>>

CntStep ==
    \/ WriteCount
    \/ WriteRecord
    \/ RecordsDone

CntNext == CntStep /\ UNCHANGED <<pipeVars, encVars, resVars, strokeVars, svVars, mkVars, cutVars, cropVars, inwVars, outwVars, ftVars, pvVars, trimVars, snVars, ccVars, ixVars, nfVars, gnVars, rpVars, sqVars>>

SpecLayerCount == CntInit /\ [][CntNext]_vars

\* C8: the count field is the negative of the number of records written, and
\* a list of more than 32767 layers (32768 included) makes the encoder fail
\* without a count being emitted.
C8_CountNegatesRecords ==
    /\ cntPc = "done" => RdI16(cntField, 1) = -cntRecords
    /\ cntLayers > Int16Max => (cntField = <<>> /\ cntPc \in {"start", "raised"})

\* the part that holds: a finished encoding has count = -(records written)
CountMatchesRecords ==
    cntPc = "done" => (RdI16(cntField, 1) = -cntRecords /\ cntRecords = cntLayers)


-----------------------------------------------------------------------------
(* Resolution metadata through the pipeline stages                          *)

MaxStages == 2

\* the six fields of a resolution block; h and v in 1/65536 DPI
Fields(hw, hn, hu, wu, vw, vn, vu, hgt) ==
    [present |-> TRUE,
     hRes |-> hw * 65536 + hn, hResUnit |-> hu, widthUnit |-> wu,
     vRes |-> vw * 65536 + vn, vResUnit |-> vu, heightUnit |-> hgt]

NoFields ==
    [present |-> FALSE,
     hRes |-> 0, hResUnit |-> 0, widthUnit |-> 0,
     vRes |-> 0, vResUnit |-> 0, heightUnit |-> 0]

SourceFields ==
    {Fields(72, 0, 1, 1, 72, 0, 1, 1),
     Fields(300, 0, 1, 2, 300, 0, 1, 2),
     Fields(72, 32768, 2, 1, 150, 0, 2, 1),
     Fields(96, 1, 1, 1, 72, 0, 2, 3),
     Fields(72, 0, 2, 2, 72, 0, 2, 2),
     Fields(1, 65535, 1, 1, 600, 0, 1, 1)}

\* an image resource as it stands in a source file
Resource(id, name, data) ==
    Sig_8BIM \o PackU16(id) \o <<Len(name)>> \o name
    \o (IF (Len(name) + 1) % 2 # 0 THEN <<0>> ELSE <<>>)
    \o PackU32(Len(data)) \o data
    \o (IF Len(data) % 2 # 0 THEN <<0>> ELSE <<>>)

ResolutionData(fd) ==
    PackU32(fd.hRes) \o PackU16(fd.hResUnit) \o PackU16(fd.widthUnit)
    \o PackU32(fd.vRes) \o PackU16(fd.vResUnit) \o PackU16(fd.heightUnit)

OtherResource == Resource(1006, <<97, 98>>, <<1, 2, 3>>)

SourceLayouts == {"alone", "named", "after_other"}

SourceResources(layout, fd) ==
    IF layout = "alone" THEN Resource(1005, <<>>, ResolutionData(fd))
    ELSE IF layout = "named" THEN Resource(1005, <<114>>, ResolutionData(fd))
    ELSE IF layout = "after_other" THEN OtherResource \o Resource(1005, <<>>, ResolutionData(fd))
    ELSE IF layout = "other_only" THEN OtherResource
    ELSE <<>>

\* the layers every stage carries through
StageLayers == <<MakeLayer(1, 0, 0, 1, 1)>>

SourceDocument(resources) ==
    LET layer_data == LayerInfo(StageLayers, 1, 1)
    IN FileHeader(1, 1) \o PackU32(0)
       \o PackU32(Len(resources)) \o resources
       \o PackU32(Len(layer_data)) \o layer_data
       \o PackU16(0) \o CompositeImage(StageLayers, 1, 1)

ResInit ==
    /\ PipeIdle /\ EncIdle /\ CntIdle /\ StrokeIdle /\ SvIdle /\ MkIdle /\ CutIdle /\ CropIdle /\ InwIdle /\ OutwIdle /\ FtIdle /\ PvIdle /\ TrimIdle /\ SnIdle /\ CcIdle /\ IxIdle /\ NfIdle /\ GnIdle /\ RpIdle /\ SqIdle
    /\ \/ \E layout \in SourceLayouts, fd \in SourceFields :
            /\ resOrigin = fd
            /\ resDoc = SourceDocument(SourceResources(layout, fd))
       \/ \E layout \in {"other_only", "none"} :
            /\ resOrigin = NoFields
            /\ resDoc = SourceDocument(SourceResources(layout, NoFields))
    /\ resStages = <<>>

\* InsideTransformer.transform: the resolution is read from the input file
StageInside ==
    /\ Len(resStages) < MaxStages
    /\ resDoc' = Inside_write_psd(StageLayers, 1, 1, extract_resolution_from_psd(resDoc))
    /\ resStages' = Append(resStages, "inside")
    /\ UNCHANGED resOrigin

\* PSDReplacer.replace
StageReplace ==
    /\ Len(resStages) < MaxStages
    /\ resDoc' = Replacer_save_psd(StageLayers, 1, 1)
    /\ resStages' = Append(resStages, "replace")
    /\ UNCHANGED resOrigin

\* BinaryPSDTransformer.transform
StageOutward ==
    /\ Len(resStages) < MaxStages
    /\ resDoc' = Outside_write_psd(StageLayers, 1, 1, extract_resolution_from_psd(resDoc))
    /\ resStages' = Append(resStages, "outward")
    /\ UNCHANGED resOrigin

\* PSDProcessorCore._add_window_layer: the document is rewritten with one more layer
StageWindow ==
    /\ Len(resStages) < MaxStages
    /\ resDoc' = Core_create_layered_psd_data(
                     Append(StageLayers, MakeLayer(3, 0, 0, 1, 1)), 1, 1)
    /\ resStages' = Append(resStages, "window")
    /\ UNCHANGED resOrigin

ResStep ==
    \/ StageInside
    \/ StageReplace
    \/ StageOutward
    \/ StageWindow

ResNext == ResStep /\ UNCHANGED <<pipeVars, encVars, cntVars, strokeVars, svVars, mkVars, cutVars, cropVars, inwVars, outwVars, ftVars, pvVars, trimVars, snVars, ccVars, ixVars, nfVars, gnVars, rpVars, sqVars>>

SpecResolution == ResInit /\ [][ResNext]_vars

\* the resolution block a reader finds in an image-resources section
RECURSIVE FindResolution(_, _)
FindResolution(res, p) ==
    IF p + 11 > Len(res) THEN NoFields
    ELSE LET id == RdU16(res, p + 4)
             nameLen == At(res, p + 6)
             q == p + 7 + nameLen + ((nameLen + 1) % 2)
             dataLen == RdU32(res, q)
             d == q + 4
         IN IF id = 1005
            THEN [present |-> TRUE,
                  hRes |-> RdU32(res, d), hResUnit |-> RdU16(res, d + 4),
                  widthUnit |-> RdU16(res, d + 6),
                  vRes |-> RdU32(res, d + 8), vResUnit |-> RdU16(res, d + 12),
                  heightUnit |-> RdU16(res, d + 14)]
            ELSE FindResolution(res, d + dataLen + (dataLen % 2))

ResolutionOf(document) == FindResolution(ReadDocument(document).resources, 1)

\* C9: every document a stage produces carries the source's six resolution
\* fields, or 72 DPI on both axes when the source had no resolution block.
C9_ResolutionPreserved ==
    resStages # <<>> =>
        LET got == ResolutionOf(resDoc)
        IN /\ got.present
           /\ IF resOrigin.present
              THEN got = resOrigin
              ELSE got.hRes = 72 * 65536 /\ got.vRes = 72 * 65536

\* the stages that do carry the resolution
TransformsKeepResolution ==
    (resStages # <<>> /\ \A i \in 1..Len(resStages) : resStages[i] \in {"inside", "outward"}) =>
        LET got == ResolutionOf(resDoc)
        IN IF resOrigin.present THEN got = resOrigin
           ELSE got = Fields(72, 0, 1, 1, 72, 0, 1, 1)


-----------------------------------------------------------------------------
(* Stroke masks: PrecisePixelStroker and the dilation loop of               *)
(* PNGStrokeProcessor._create_smooth_stroke_pil                             *)

MaxSquare == 2
MaxStroke == 2

\* a single-band image is [w, h, px], px row-major
ValAt(img, col, row) == img.px[row * img.w + col + 1]

Clamp(v, lo, hi) == Max(lo, Min(v, hi))

SetMax(S) == CHOOSE v \in S : \A u \in S : v >= u

\* alpha.point(lambda x: 255 if x > 0 else 0)
Binarize(img) == [img EXCEPT !.px = [k \in 1..Len(img.px) |-> IF img.px[k] > 0 THEN 255 ELSE 0]]

\* a 3x3 filter that takes the four edge neighbours only
MaxFilter3_Cross(img) ==
    [img EXCEPT !.px = [k \in 1..Len(img.px) |->
        LET col == (k - 1) % img.w
            row == (k - 1) \div img.w
        IN SetMax({ValAt(img, Clamp(col + d[1], 0, img.w - 1), Clamp(row + d[2], 0, img.h - 1)) :
                       d \in {<<0, 0>>, <<-1, 0>>, <<1, 0>>, <<0, -1>>, <<0, 1>>}})]]

\* image.filter(ImageFilter.MaxFilter(3)): every pixel becomes the maximum of
\* its 3x3 neighbourhood, the image being extended by repeating its edge
MaxFilter3(img) ==
    [img EXCEPT !.px = [k \in 1..Len(img.px) |->
        LET col == (k - 1) % img.w
            row == (k - 1) \div img.w
        IN SetMax({ValAt(img, Clamp(col + dc, 0, img.w - 1), Clamp(row + dr, 0, img.h - 1)) :
                       dc \in -1..1, dr \in -1..1})]]

\* ImageChops.subtract(a, b): clip(a - b)
Subtract(a, b) == [a EXCEPT !.px = [k \in 1..Len(a.px) |-> Clamp(a.px[k] - b.px[k], 0, 255)]]

\* an alpha band holding an n x n square of value v, margin pixels from every edge
SquareAlpha(n, margin, v) ==
    LET side == n + 2 * margin
    IN [w |-> side, h |-> side,
        px |-> [k \in 1..(side * side) |->
                  LET col == (k - 1) % side
                      row == (k - 1) \div side
                  IN IF /\ col >= margin /\ col < margin + n
                        /\ row >= margin /\ row < margin + n
                     THEN v ELSE 0]]

\* alpha bands that are not squares: scattered and faint pixels, a bar on the
\* edge, and a fully transparent band
OddAlphas ==
    {[w |-> 5, h |-> 4, px |-> [k \in 1..20 |-> IF k = 7 THEN 255 ELSE IF k = 19 THEN 7 ELSE 0]],
     [w |-> 4, h |-> 5, px |-> [k \in 1..20 |-> IF k \in {1, 2, 5} THEN 128 ELSE IF k = 16 THEN 1 ELSE 0]],
     [w |-> 3, h |-> 3, px |-> [k \in 1..9 |-> 0]]}

StrokeGenerators == {"PrecisePixelStroker", "PNGStrokeProcessor"}

\* the colour of input pixel k: neighbouring pixels differ
InputColour(k) == <<(40 * k) % 256, (200 + k) % 256, (7 * k) % 256>>

\* stroke_color=(255, 255, 255, 255)
StrokeColour == <<255, 255, 255, 255>>

\* Image.paste(colour, box, mask) with a single-band mask: every band is blended
PasteByMask(dst, src, mask) == [i \in 1..4 |-> Blend(mask, dst[i], src[i])]

StrokeInit ==
    /\ PipeIdle /\ EncIdle /\ CntIdle /\ ResIdle /\ SvIdle /\ MkIdle /\ CutIdle /\ CropIdle /\ InwIdle /\ OutwIdle /\ FtIdle /\ PvIdle /\ TrimIdle /\ SnIdle /\ CcIdle /\ IxIdle /\ NfIdle /\ GnIdle /\ RpIdle /\ SqIdle
    /\ strokeWidth \in 1..MaxStroke
    /\ \/ \E n \in 1..MaxSquare, margin \in {0, 1, 2 * strokeWidth + 1, 2 * strokeWidth + 2},
             v \in {255, 128} :
                strokeAlpha = SquareAlpha(n, margin, v)
       \/ strokeAlpha \in OddAlphas
    /\ strokeGen \in StrokeGenerators
    /\ strokePc = "start"
    /\ strokeBinary = <<>> /\ strokeMask = <<>> /\ strokeRing = <<>>
    /\ strokeIter = 0
    /\ strokeRgb = [k \in 1..Len(strokeAlpha.px) |-> InputColour(k)]
    /\ strokeResult = <<>>

\* PrecisePixelStroker.validate_input: a fully transparent image is refused
StrokeValidate ==
    /\ strokeGen = "PrecisePixelStroker" /\ strokePc = "start"
    /\ strokePc' = IF \A k \in 1..Len(strokeAlpha.px) : strokeAlpha.px[k] = 0
                   THEN "raised" ELSE "validated"
    /\ UNCHANGED <<strokeAlpha, strokeWidth, strokeGen, strokeBinary, strokeMask,
                   strokeIter, strokeRing>>
    /\ UNCHANGED <<strokeRgb, strokeResult>>

\* create_precise_stroke_mask: binary_mask, stroke_mask = binary_mask.copy()
StrokeBinarize ==
    /\ strokeGen = "PrecisePixelStroker" /\ strokePc = "validated"
    /\ strokeBinary' = Binarize(strokeAlpha)
    /\ strokeMask' = Binarize(strokeAlpha)
    /\ strokePc' = "dilating"
    /\ UNCHANGED <<strokeAlpha, strokeWidth, strokeGen, strokeIter, strokeRing>>
    /\ UNCHANGED <<strokeRgb, strokeResult>>

\* one iteration of "for i in range(self.stroke_width)"
StrokeDilate ==
    /\ strokeGen = "PrecisePixelStroker" /\ strokePc = "dilating"
    /\ strokeIter < strokeWidth
    /\ strokeMask' = MaxFilter3(strokeMask)
    /\ strokeIter' = strokeIter + 1
    /\ UNCHANGED <<strokeAlpha, strokeWidth, strokeGen, strokePc, strokeBinary, strokeRing>>
    /\ UNCHANGED <<strokeRgb, strokeResult>>

\* pure_stroke_mask = ImageChops.subtract(stroke_mask, binary_mask)
StrokeSubtract ==
    /\ strokeGen = "PrecisePixelStroker" /\ strokePc = "dilating"
    /\ strokeIter = strokeWidth
    /\ strokeRing' = Subtract(strokeMask, strokeBinary)
    /\ strokePc' = "masked"
    /\ UNCHANGED <<strokeAlpha, strokeWidth, strokeGen, strokeBinary, strokeMask, strokeIter>>
    /\ UNCHANGED <<strokeRgb, strokeResult>>

\* PNGStrokeProcessor._validate_image, called first by process_png: a fully
\* transparent image is refused
BackendValidate ==
    /\ strokeGen = "PNGStrokeProcessor" /\ strokePc = "start"
    /\ strokePc' = IF \A k \in 1..Len(strokeAlpha.px) : ~(strokeAlpha.px[k] > 0)
                   THEN "raised" ELSE "validated"
    /\ UNCHANGED <<strokeAlpha, strokeWidth, strokeGen, strokeBinary, strokeMask,
                   strokeIter, strokeRing, strokeRgb, strokeResult>>

\* _create_smooth_stroke_pil: stroke_mask = alpha.copy()
BackendCopy ==
    /\ strokeGen = "PNGStrokeProcessor" /\ strokePc = "validated"
    /\ strokeBinary' = strokeAlpha
    /\ strokeMask' = strokeAlpha
    /\ strokePc' = "dilating"
    /\ UNCHANGED <<strokeAlpha, strokeWidth, strokeGen, strokeIter, strokeRing>>
    /\ UNCHANGED <<strokeRgb, strokeResult>>

\* one iteration of "for i in range(iterations)", iterations = max(1, stroke_width);
\* the blur and the subtraction that follow the loop are not represented
BackendDilate ==
    /\ strokeGen = "PNGStrokeProcessor" /\ strokePc = "dilating"
    /\ strokeIter < Max(1, strokeWidth)
    /\ strokeMask' = MaxFilter3(strokeMask)
    /\ strokeIter' = strokeIter + 1
    /\ UNCHANGED <<strokeAlpha, strokeWidth, strokeGen, strokePc, strokeBinary, strokeRing>>
    /\ UNCHANGED <<strokeRgb, strokeResult>>

\* apply_stroke_color_precise: the stroke colour pasted through the ring mask
\* on a transparent canvas, then the image pasted with itself as mask
StrokeApply ==
    /\ strokeGen = "PrecisePixelStroker" /\ strokePc = "masked"
    /\ strokeResult' =
          [k \in 1..Len(strokeAlpha.px) |->
              PastePixel(PasteByMask(<<0, 0, 0, 0>>, StrokeColour, strokeRing.px[k]),
                         <<strokeRgb[k][1], strokeRgb[k][2], strokeRgb[k][3], strokeAlpha.px[k]>>)]
    /\ strokePc' = "done"
    /\ UNCHANGED <<strokeAlpha, strokeWidth, strokeGen, strokeBinary, strokeMask,
                   strokeIter, strokeRing, strokeRgb>>

StrokeStep ==
    \/ StrokeValidate
    \/ StrokeBinarize
    \/ StrokeDilate
    \/ StrokeSubtract
    \/ StrokeApply
    \/ BackendValidate
    \/ BackendCopy
    \/ BackendDilate

StrokeNext == StrokeStep /\ UNCHANGED <<pipeVars, encVars, cntVars, resVars, svVars, mkVars, cutVars, cropVars, inwVars, outwVars, ftVars, pvVars, trimVars, snVars, ccVars, ixVars, nfVars, gnVars, rpVars, sqVars>>

SpecStroke == StrokeInit /\ [][StrokeNext]_vars


-----------------------------------------------------------------------------
(* Claims about the stroke mask                                             *)

ColOf(img, k) == (k - 1) % img.w
RowOf(img, k) == (k - 1) \div img.w

\* the pixels where a band is not zero
Support(img) == {k \in 1..Len(img.px) : img.px[k] > 0}

SetMin(S) == CHOOSE v \in S : \A u \in S : v <= u

\* the bounding box <<left, top, right, bottom>> of a non-empty support
Box(img) ==
    LET cols == {ColOf(img, k) : k \in Support(img)}
        rows == {RowOf(img, k) : k \in Support(img)}
    IN <<SetMin(cols), SetMin(rows), SetMax(cols), SetMax(rows)>>

InBox(img, k, b, grow) ==
    /\ ColOf(img, k) >= b[1] - grow /\ ColOf(img, k) <= b[3] + grow
    /\ RowOf(img, k) >= b[2] - grow /\ RowOf(img, k) <= b[4] + grow

\* the input is a fully opaque square lying at least 2k+2 pixels from every edge
IsolatedOpaqueSquare ==
    /\ Support(strokeAlpha) # {}
    /\ LET b == Box(strokeAlpha)
           away == 2 * strokeWidth + 2
       IN /\ b[3] - b[1] = b[4] - b[2]
          /\ \A k \in 1..Len(strokeAlpha.px) :
                strokeAlpha.px[k] = IF InBox(strokeAlpha, k, b, 0) THEN 255 ELSE 0
          /\ b[1] >= away /\ b[2] >= away
          /\ strokeAlpha.w - 1 - b[3] >= away
          /\ strokeAlpha.h - 1 - b[4] >= away

SquareSide == LET b == Box(strokeAlpha) IN b[3] - b[1] + 1

\* the pixels within Chebyshev distance d of a set of pixels of img
ChebyshevBall(img, S, d) ==
    {k \in 1..Len(img.px) :
        \E q \in S : /\ ColOf(img, k) - ColOf(img, q) \in (0 - d)..d
                     /\ RowOf(img, k) - RowOf(img, q) \in (0 - d)..d}

C11_StrokeNeverOverdraws ==
    strokePc = "done" =>
        \A k \in 1..Len(strokeAlpha.px) :
            /\ strokeRing.px[k] > 0 => strokeAlpha.px[k] = 0
            /\ strokeAlpha.px[k] > 0 =>
                  strokeResult[k] = <<strokeRgb[k][1], strokeRgb[k][2], strokeRgb[k][3],
                                      strokeAlpha.px[k]>>

\* the part that holds: the ring avoids the original, and opaque pixels are kept
OpaquePixelsKept ==
    strokePc = "done" =>
        \A k \in 1..Len(strokeAlpha.px) :
            /\ strokeRing.px[k] > 0 =>
                  (strokeAlpha.px[k] = 0 /\ strokeResult[k] = StrokeColour)
            /\ strokeAlpha.px[k] = 255 =>
                  strokeResult[k] = <<strokeRgb[k][1], strokeRgb[k][2], strokeRgb[k][3], 255>>


-----------------------------------------------------------------------------
(* PSDProcessorCore._generate_single_stroke_version                         *)

\* the alpha bands a layer of the source document can have (canvas 2 x 1)
VersionAlphas ==
    {[w |-> 2, h |-> 1, px |-> <<0, 0>>],
     [w |-> 2, h |-> 1, px |-> <<0, 255>>],
     [w |-> 2, h |-> 1, px |-> <<128, 3>>],
     [w |-> 2, h |-> 1, px |-> <<255, 255>>]}

\* canvas = Image.new('RGBA', (w + 2*sw, h + 2*sw), (0,0,0,0)); canvas.paste(im, (sw, sw))
ExpandAlpha(img, sw) ==
    LET nw == img.w + 2 * sw
        nh == img.h + 2 * sw
    IN [w |-> nw, h |-> nh,
        px |-> [k \in 1..(nw * nh) |->
                  LET col == (k - 1) % nw
                      row == (k - 1) \div nw
                  IN IF /\ col >= sw /\ col < sw + img.w
                        /\ row >= sw /\ row < sw + img.h
                     THEN ValAt(img, col - sw, row - sw) ELSE 0]]

\* layer_name.startswith('part')
StartsWithPart(name) == Len(name) >= 4 /\ SubSeq(name, 1, 4) = <<112, 97, 114, 116>>

\* a validation that lets every image through
NoVisiblePixel_Never(img) == FALSE

\* valid_pixels == 0 in PNGStrokeProcessor._validate_image
NoVisiblePixel(img) == \A k \in 1..Len(img.px) : ~(img.px[k] > 0)

SvInit ==
    /\ PipeIdle /\ EncIdle /\ CntIdle /\ ResIdle /\ StrokeIdle /\ MkIdle /\ CutIdle /\ CropIdle /\ InwIdle /\ OutwIdle /\ FtIdle /\ PvIdle /\ TrimIdle /\ SnIdle /\ CcIdle /\ IxIdle /\ NfIdle /\ GnIdle /\ RpIdle /\ SqIdle
    /\ \E av \in VersionAlphas, a1 \in VersionAlphas, a2 \in VersionAlphas :
          svLayers = <<[name |-> Name_view, alpha |-> av],
                       [name |-> Name_part1, alpha |-> a1],
                       [name |-> Name_part2, alpha |-> a2]>>
    /\ svWidth \in 1..MaxStroke
    /\ svPc = "start"
    /\ svPngs = {} /\ svStroked = {}
    /\ svOutcome = "none"
    /\ svFile = FALSE

\* step 1, PSDScaler.extract_layers_from_psd: one canvas-size PNG per layer
SvExtract ==
    /\ svPc = "start"
    /\ IF Len(svLayers) = 0
       THEN svPc' = "done" /\ svOutcome' = "fail" /\ svPngs' = svPngs
       ELSE svPc' = "extracted" /\ svOutcome' = svOutcome /\ svPngs' = 1..Len(svLayers)
    /\ UNCHANGED <<svLayers, svWidth, svStroked, svFile>>

\* step 2: every PNG is enlarged by stroke_width on each side
SvExpand ==
    /\ svPc = "extracted"
    /\ svPc' = "stroking"
    /\ UNCHANGED <<svLayers, svWidth, svPngs, svStroked, svOutcome, svFile>>

\* step 3, one iteration of "for png_file in png_files" (glob order): a part
\* layer goes through processor.process_png, any other layer is copied
SvStrokeLayer(i) ==
    /\ svPc = "stroking"
    /\ i \in svPngs \ svStroked
    /\ IF StartsWithPart(svLayers[i].name) /\ NoVisiblePixel(ExpandAlpha(svLayers[i].alpha, svWidth))
       THEN svPc' = "done" /\ svOutcome' = "fail" /\ svStroked' = svStroked
       ELSE svPc' = svPc /\ svOutcome' = svOutcome /\ svStroked' = svStroked \cup {i}
    /\ UNCHANGED <<svLayers, svWidth, svPngs, svFile>>

\* step 4, PSDScaler.create_psd_from_dir writes the stroke document
SvRebuild ==
    /\ svPc = "stroking"
    /\ svStroked = svPngs
    /\ svPc' = "done"
    /\ IF svStroked = {}
       THEN svOutcome' = "fail" /\ svFile' = svFile
       ELSE svOutcome' = "ok" /\ svFile' = TRUE
    /\ UNCHANGED <<svLayers, svWidth, svPngs, svStroked>>

SvStep ==
    \/ SvExtract
    \/ SvExpand
    \/ \E i \in 1..Len(svLayers) : SvStrokeLayer(i)
    \/ SvRebuild

SvNext == SvStep /\ UNCHANGED <<pipeVars, encVars, cntVars, resVars, strokeVars, mkVars, cutVars, cropVars, inwVars, outwVars, ftVars, pvVars, trimVars, snVars, ccVars, ixVars, nfVars, gnVars, rpVars, sqVars>>

SpecStrokeVersion == SvInit /\ [][SvNext]_vars

\* a part layer of the source document with alpha 0 at every pixel
TransparentParts ==
    {i \in 1..Len(svLayers) :
        /\ Lower(sanitize_name(svLayers[i].name)) \in RoleNames \ {Name_view}
        /\ \A k \in 1..Len(svLayers[i].alpha.px) : svLayers[i].alpha.px[k] = 0}

\* C12: a fully transparent raster is never stroked, and a stroke version
\* whose source has a fully transparent part layer ends in failure with no
\* stroke document written.
C12_TransparentPartFails ==
    /\ svStroked \cap TransparentParts = {}
    /\ svFile => TransparentParts = {}
    /\ (svPc = "done" /\ TransparentParts # {}) => svOutcome = "fail"

\* a single raster with no visible pixel is refused by both generators: no
\* mask and no image exist afterwards
TransparentInputRefused ==
    (strokePc \notin {"off", "start"} /\ NoVisiblePixel(strokeAlpha)) =>
        (strokePc = "raised" /\ strokeRing = <<>> /\ strokeResult = <<>>)

C12_Witness ==
    /\ svPc = "done" /\ svOutcome = "fail" /\ ~svFile
    /\ TransparentParts = {3}
    /\ 2 \in svStroked


-----------------------------------------------------------------------------
(* Alpha intersection: ImageChops.multiply on two alpha bands               *)

\* a multiply that truncates instead of rounding
Multiply_Floor(a, b) == (a * b) \div 255

\* ImageChops.multiply(a, b) on 8-bit bands: Pillow's MULDIV255
Multiply(a, b) == DIV255(a * b)

MkInit ==
    /\ PipeIdle /\ EncIdle /\ CntIdle /\ ResIdle /\ StrokeIdle /\ SvIdle /\ CutIdle /\ CropIdle /\ InwIdle /\ OutwIdle /\ FtIdle /\ PvIdle /\ TrimIdle /\ SnIdle /\ CcIdle /\ IxIdle /\ NfIdle /\ GnIdle /\ RpIdle /\ SqIdle
    /\ mkA \in 0..255
    /\ mkB \in 0..255
    /\ mkPc = "input"
    /\ mkMask = 0
    /\ mkAlpha = 0

\* keep_intersection_optimized: new_alpha_b = multiply(alpha_a, alpha_b)
KeepIntersection ==
    /\ mkPc = "input"
    /\ mkMask' = Multiply(mkA, mkB)
    /\ mkAlpha' = Multiply(mkA, mkB)
    /\ mkPc' = "kept"
    /\ UNCHANGED <<mkA, mkB>>

\* remove_intersection_optimized: new_alpha_b = subtract(alpha_b, multiply(alpha_a, alpha_b))
RemoveIntersection ==
    /\ mkPc = "input"
    /\ mkMask' = Multiply(mkA, mkB)
    /\ mkAlpha' = Clamp(mkB - Multiply(mkA, mkB), 0, 255)
    /\ mkPc' = "removed"
    /\ UNCHANGED <<mkA, mkB>>

MkStep ==
    \/ KeepIntersection
    \/ RemoveIntersection

MkNext == MkStep /\ UNCHANGED <<pipeVars, encVars, cntVars, resVars, strokeVars, svVars, cutVars, cropVars, inwVars, outwVars, ftVars, pvVars, trimVars, snVars, ccVars, ixVars, nfVars, gnVars, rpVars, sqVars>>

SpecMask == MkInit /\ [][MkNext]_vars

\* binarize(m): 255 where m > 0, else 0
BinarizeValue(m) == IF m > 0 THEN 255 ELSE 0

C14_SupportIsAnd ==
    mkPc \in {"kept", "removed"} => ((mkMask > 0) <=> (mkA > 0 /\ mkB > 0))

\* the multiply is round(a*b/255), and the intersection is above 0 exactly
\* where a*b is at least 128
MultiplyIsRounded ==
    mkPc \in {"kept", "removed"} =>
        /\ mkMask = RoundDiv(mkA * mkB, 255)
        /\ (mkMask > 0) <=> (mkA * mkB >= 128)


-----------------------------------------------------------------------------
(* Cookie-cutter substitution: extract_parts / _extract_part_by_shape       *)

\* side of the template canvas; the colour source has the same size
MaxCutCanvas == 2
\* largest side of a part layer
MaxCutPart == 2

\* self.source_image: every pixel has its own colour
SourceColour(x, y) == <<10 * x + 1, 10 * y + 2, x + y + 3, 255>>

CutAlphaValues == {0, 128, 255}

CutParts ==
    { [x1 |-> x, y1 |-> y, w |-> w, h |-> h, alpha |-> a] :
        x \in -1..MaxCutCanvas, y \in -1..MaxCutCanvas,
        w \in 1..MaxCutPart, h \in 1..MaxCutPart,
        a \in UNION { [1..(ww * hh) -> CutAlphaValues] : ww \in 1..MaxCutPart, hh \in 1..MaxCutPart } }

\* the loop over source_pixels / layer_pixels: the source colour under the
\* layer's alpha; the layer is cropped from its own (0, 0)
ShapePixels(part, x1, y1, x2, y2) ==
    [k \in 1..((x2 - x1) * (y2 - y1)) |->
        LET i == (k - 1) % (x2 - x1)
            j == (k - 1) \div (x2 - x1)
            layer_a == part.alpha[j * part.w + i + 1]
            src == SourceColour(x1 + i, y1 + j)
        IN  IF layer_a > 0 THEN <<src[1], src[2], src[3], layer_a>>
            ELSE <<0, 0, 0, 0>>]

CutInit ==
    /\ PipeIdle /\ EncIdle /\ CntIdle /\ ResIdle /\ StrokeIdle /\ SvIdle /\ MkIdle /\ CropIdle /\ InwIdle /\ OutwIdle /\ FtIdle /\ PvIdle /\ TrimIdle /\ SnIdle /\ CcIdle /\ IxIdle /\ NfIdle /\ GnIdle /\ RpIdle /\ SqIdle
    /\ cutPart \in { p \in CutParts : Len(p.alpha) = p.w * p.h }
    /\ cutImpl = "none"
    /\ cutPc = "input"
    /\ cutOut = [x |-> 0, y |-> 0, w |-> 0, h |-> 0, px |-> <<>>]

\* PSDReplacer.extract_parts: the result is kept with position (x1, y1), the
\* clamped corner
ExtractParts ==
    /\ cutPc = "input"
    /\ cutImpl' = "replacer"
    /\ LET x1 == Max(0, cutPart.x1)
           y1 == Max(0, cutPart.y1)
           x2 == Min(MaxCutCanvas, cutPart.x1 + cutPart.w)
           y2 == Min(MaxCutCanvas, cutPart.y1 + cutPart.h)
       IN  IF x2 > x1 /\ y2 > y1
           THEN /\ cutOut' = [x |-> x1, y |-> y1, w |-> x2 - x1, h |-> y2 - y1,
                              px |-> ShapePixels(cutPart, x1, y1, x2, y2)]
                /\ cutPc' = "done"
           ELSE /\ cutPc' = "skipped"
                /\ UNCHANGED cutOut
    /\ UNCHANGED cutPart

\* IntegratedProcessor.replace_parts with _extract_part_by_shape: the result is
\* kept with the layer's own bounds
ExtractPartByShape ==
    /\ cutPc = "input"
    /\ cutImpl' = "integrated"
    /\ LET x1 == Max(0, cutPart.x1)
           y1 == Max(0, cutPart.y1)
           x2 == Min(MaxCutCanvas, cutPart.x1 + cutPart.w)
           y2 == Min(MaxCutCanvas, cutPart.y1 + cutPart.h)
       IN  IF x2 <= x1 \/ y2 <= y1
           THEN /\ cutPc' = "skipped"
                /\ UNCHANGED cutOut
           ELSE /\ cutOut' = [x |-> cutPart.x1, y |-> cutPart.y1, w |-> x2 - x1, h |-> y2 - y1,
                              px |-> ShapePixels(cutPart, x1, y1, x2, y2)]
                /\ cutPc' = "done"
    /\ UNCHANGED cutPart

CutStep ==
    \/ ExtractParts
    \/ ExtractPartByShape

CutNext == CutStep /\ UNCHANGED <<pipeVars, encVars, cntVars, resVars, strokeVars, svVars, mkVars, cropVars, inwVars, outwVars, ftVars, pvVars, trimVars, snVars, ccVars, ixVars, nfVars, gnVars, rpVars, sqVars>>

SpecCutout == CutInit /\ [][CutNext]_vars

\* the canvas pixels the part layer covers
CoveredPixels ==
    { p \in (0..(MaxCutCanvas - 1)) \X (0..(MaxCutCanvas - 1)) :
        /\ p[1] >= cutPart.x1 /\ p[1] < cutPart.x1 + cutPart.w
        /\ p[2] >= cutPart.y1 /\ p[2] < cutPart.y1 + cutPart.h }

PartAlphaAt(p) == cutPart.alpha[(p[2] - cutPart.y1) * cutPart.w + (p[1] - cutPart.x1) + 1]

\* the emitted raster at canvas pixel p, transparent outside it
CutOutAt(p) ==
    IF /\ p[1] >= cutOut.x /\ p[1] < cutOut.x + cutOut.w
       /\ p[2] >= cutOut.y /\ p[2] < cutOut.y + cutOut.h
    THEN cutOut.px[(p[2] - cutOut.y) * cutOut.w + (p[1] - cutOut.x) + 1]
    ELSE <<0, 0, 0, 0>>

SilhouetteKeptAt(p) ==
    LET a == PartAlphaAt(p)
        src == SourceColour(p[1], p[2])
    IN  CutOutAt(p) = IF a > 0 THEN <<src[1], src[2], src[3], a>> ELSE <<0, 0, 0, 0>>

\* C15: at every canvas pixel the part covers, the substituted raster has the
\* part's alpha and, where that alpha is above 0, the colour source's RGB;
\* it is (0,0,0,0) where the alpha is 0. For every position of the part.
C15_SilhouetteKept ==
    cutPc = "done" => \A p \in CoveredPixels : SilhouetteKeptAt(p)

\* the same for the parts whose bounding box starts inside the canvas
SilhouetteKeptFromInside ==
    (cutPc = "done" /\ cutPart.x1 >= 0 /\ cutPart.y1 >= 0) =>
        \A p \in CoveredPixels : SilhouetteKeptAt(p)


-----------------------------------------------------------------------------
(* Crop to the view layer: _crop_part_with_view_mask / crop_part_with_view_mask *)

\* largest side of the view layer and of a part layer
MaxCropSide == 2
\* largest offset of the part from the view, in either direction
MaxCropDelta == 2

CropAlphaValues == {0, 128, 255}

CropRasters ==
    { [w |-> w, h |-> h, alpha |-> a] :
        w \in 1..MaxCropSide, h \in 1..MaxCropSide,
        a \in UNION { [1..(ww * hh) -> CropAlphaValues] : ww \in 1..MaxCropSide, hh \in 1..MaxCropSide } }

\* part_img: the colour of the part at its own pixel (i, j)
PartColour(i, j) == <<200 + i, 100 + j, 50 + i + j>>

\* an alpha band read at (x, y); Image.crop gives 0 outside the image
AlphaAt(img, x, y) ==
    IF x >= 0 /\ x < img.w /\ y >= 0 /\ y < img.h THEN img.alpha[y * img.w + x + 1] ELSE 0

\* out.paste(part_region, box, mask = multiply(part_alpha, view_alpha)) at one
\* pixel of the transparent canvas
CropPaste(i, j, pa, va) ==
    LET c == PartColour(i, j)
    IN  PasteByMask(<<0, 0, 0, 0>>, <<c[1], c[2], c[3], pa>>, Multiply(pa, va))

CropInit ==
    /\ PipeIdle /\ EncIdle /\ CntIdle /\ ResIdle /\ StrokeIdle /\ SvIdle /\ MkIdle /\ CutIdle /\ InwIdle /\ OutwIdle /\ FtIdle /\ PvIdle /\ TrimIdle /\ SnIdle /\ CcIdle /\ IxIdle /\ NfIdle /\ GnIdle /\ RpIdle /\ SqIdle
    /\ cropView \in { r \in CropRasters : Len(r.alpha) = r.w * r.h }
    /\ cropPart \in { r \in CropRasters : Len(r.alpha) = r.w * r.h }
    /\ cropDelta \in (-MaxCropDelta..MaxCropDelta) \X (-1..1)
    /\ cropImpl = "none"
    /\ cropPc = "input"
    /\ cropOut = [w |-> 0, h |-> 0, px |-> <<>>]

\* PSDCropper._crop_part_with_view_mask
Backend_crop_part_with_view_mask ==
    /\ cropPc = "input"
    /\ cropImpl' = "backend"
    /\ cropPc' = "done"
    /\ LET dx == cropDelta[1]
           dy == cropDelta[2]
           v_w == cropView.w
           v_h == cropView.h
           crop_left == Max(0, dx)
           crop_top == Max(0, dy)
           crop_right == Min(v_w, dx + cropPart.w)
           crop_bottom == Min(v_h, dy + cropPart.h)
           part_crop_left == Max(0, -dx)
           part_crop_top == Max(0, -dy)
       IN  cropOut' =
             [w |-> v_w, h |-> v_h,
              px |-> [k \in 1..(v_w * v_h) |->
                 LET x == (k - 1) % v_w
                     y == (k - 1) \div v_w
                     i == part_crop_left + (x - crop_left)
                     j == part_crop_top + (y - crop_top)
                 IN  IF crop_left >= crop_right \/ crop_top >= crop_bottom
                     THEN <<0, 0, 0, 0>>
                     ELSE IF x >= crop_left /\ x < crop_right /\ y >= crop_top /\ y < crop_bottom
                          THEN CropPaste(i, j, AlphaAt(cropPart, i, j), AlphaAt(cropView, x, y))
                          ELSE <<0, 0, 0, 0>>]]
    /\ UNCHANGED <<cropView, cropPart, cropDelta>>

\* scripts/psd_crop_view_parts.crop_part_with_view_mask: the view alpha is
\* cropped at (dx, dy) without clamping and the part is pasted at (dx, dy)
Script_crop_part_with_view_mask ==
    /\ cropPc = "input"
    /\ cropImpl' = "script"
    /\ cropPc' = "done"
    /\ LET dx == cropDelta[1]
           dy == cropDelta[2]
           v_w == cropView.w
           v_h == cropView.h
       IN  cropOut' =
             [w |-> v_w, h |-> v_h,
              px |-> [k \in 1..(v_w * v_h) |->
                 LET x == (k - 1) % v_w
                     y == (k - 1) \div v_w
                     i == x - dx
                     j == y - dy
                 IN  IF i >= 0 /\ i < cropPart.w /\ j >= 0 /\ j < cropPart.h
                     THEN CropPaste(i, j, AlphaAt(cropPart, i, j), AlphaAt(cropView, dx + i, dy + j))
                     ELSE <<0, 0, 0, 0>>]]
    /\ UNCHANGED <<cropView, cropPart, cropDelta>>

CropStep ==
    \/ Backend_crop_part_with_view_mask
    \/ Script_crop_part_with_view_mask

CropNext == CropStep /\ UNCHANGED <<pipeVars, encVars, cntVars, resVars, strokeVars, svVars, mkVars, cutVars, inwVars, outwVars, ftVars, pvVars, trimVars, snVars, ccVars, ixVars, nfVars, gnVars, rpVars, sqVars>>

SpecCrop == CropInit /\ [][CropNext]_vars

CropOutAt(x, y) == cropOut.px[y * cropOut.w + x + 1]

ViewPixels == (0..(cropView.w - 1)) \X (0..(cropView.h - 1))

\* the part's alpha at view pixel (x, y), 0 where the part does not reach
PartAlphaUnder(x, y) == AlphaAt(cropPart, x - cropDelta[1], y - cropDelta[2])

\* C16: the emitted raster has the view's size; a pixel is fully transparent
\* unless the view alpha and the part alpha (at the pixel minus delta) are both
\* above 0; a pixel that is not transparent has the part's RGB and the alpha
\* intersect(view alpha, part alpha). For every delta.
C16_CropToView ==
    cropPc = "done" =>
        /\ cropOut.w = cropView.w /\ cropOut.h = cropView.h
        /\ Len(cropOut.px) = cropView.w * cropView.h
        /\ \A p \in ViewPixels :
             LET va == AlphaAt(cropView, p[1], p[2])
                 pa == PartAlphaUnder(p[1], p[2])
                 c == PartColour(p[1] - cropDelta[1], p[2] - cropDelta[2])
                 o == CropOutAt(p[1], p[2])
             IN  /\ ~(va > 0 /\ pa > 0) => o = <<0, 0, 0, 0>>
                 /\ o # <<0, 0, 0, 0>> => o = <<c[1], c[2], c[3], Multiply(va, pa)>>

\* the size and the transparency outside the intersection hold for every input
CropSizeAndSupport ==
    cropPc = "done" =>
        /\ cropOut.w = cropView.w /\ cropOut.h = cropView.h
        /\ Len(cropOut.px) = cropView.w * cropView.h
        /\ \A p \in ViewPixels :
             ~(AlphaAt(cropView, p[1], p[2]) > 0 /\ PartAlphaUnder(p[1], p[2]) > 0)
                 => CropOutAt(p[1], p[2]) = <<0, 0, 0, 0>>

\* where both alphas are 255 the part's pixel is emitted unchanged
CropOfOpaque ==
    cropPc = "done" =>
        \A p \in ViewPixels :
            (AlphaAt(cropView, p[1], p[2]) = 255 /\ PartAlphaUnder(p[1], p[2]) = 255) =>
                LET c == PartColour(p[1] - cropDelta[1], p[2] - cropDelta[2])
                IN  CropOutAt(p[1], p[2]) = <<c[1], c[2], c[3], 255>>


-----------------------------------------------------------------------------
(* InsideTransformer.step4_transform_layers                                 *)

\* side of the canvas of the source document
MaxInwardCanvas == 3
\* largest side of the layer whose place varies
MaxInwardPart == 2

\* ImageOps.mirror: left-right
Mirror(img) ==
    [w |-> img.w, h |-> img.h,
     px |-> [k \in 1..(img.w * img.h) |->
                PixelAt(img, img.w - 1 - ((k - 1) % img.w), (k - 1) \div img.w)]]

\* ImageOps.flip: top-bottom
Flip(img) ==
    [w |-> img.w, h |-> img.h,
     px |-> [k \in 1..(img.w * img.h) |->
                PixelAt(img, (k - 1) % img.w, img.h - 1 - ((k - 1) \div img.w))]]

InwardNames == <<Name_view, Name_part1, Name_part2, Name_part3, Name_part4, Name_logo>>

\* a document with the five roles and one more layer; layer s lies at (x, y)
\* with size w x h, the others are single pixels at (1, 1)
InwardDocument(s, x, y, w, h) ==
    [i \in 1..6 |->
        IF i = s
        THEN [name |-> InwardNames[i], x |-> x, y |-> y, image |-> PatternImage(w, h, i)]
        ELSE [name |-> InwardNames[i], x |-> 1, y |-> 1, image |-> PatternImage(1, 1, i)]]

InwInit ==
    /\ PipeIdle /\ EncIdle /\ CntIdle /\ ResIdle /\ StrokeIdle /\ SvIdle /\ MkIdle /\ CutIdle /\ CropIdle /\ OutwIdle /\ FtIdle /\ PvIdle /\ TrimIdle /\ SnIdle /\ CcIdle /\ IxIdle /\ NfIdle /\ GnIdle /\ RpIdle /\ SqIdle
    /\ \E s \in 1..6, x \in -1..MaxInwardCanvas, y \in -1..MaxInwardCanvas,
          w \in 1..MaxInwardPart, h \in 1..MaxInwardPart :
            inwLayers = InwardDocument(s, x, y, w, h)
    /\ inwPc = "input"
    /\ inwTransformed = <<>>
    /\ inwCanvas = <<0, 0>>
    /\ inwRecords = <<>>

\* _calculate_transformations: flip_type and new_position of a part layer
Inside_flip_type(role) ==
    IF role \in {Name_part1, Name_part3} THEN "horizontal" ELSE "vertical"

Inside_new_position(role, layer) ==
    LET width == layer.image.w
        height == layer.image.h
        move_x == IF role = Name_part1 THEN width ELSE IF role = Name_part3 THEN -width ELSE 0
        move_y == IF role = Name_part2 THEN height ELSE IF role = Name_part4 THEN -height ELSE 0
    IN <<layer.x + move_x, layer.y + move_y>>

\* _create_transformed_layers, for one layer
Inside_transformed_layer(layer) ==
    LET layer_name == Lower(sanitize_name(layer.name))
    IN  IF layer_name \in {Name_part1, Name_part2, Name_part3, Name_part4}
        THEN LET position == Inside_new_position(layer_name, layer)
             IN [name |-> layer.name, x |-> position[1], y |-> position[2],
                 image |-> IF Inside_flip_type(layer_name) = "horizontal"
                           THEN Mirror(layer.image) ELSE Flip(layer.image)]
        ELSE [name |-> layer.name, x |-> layer.x, y |-> layer.y, image |-> layer.image]

\* step4_transform_layers: transformations, transformed layers, and the
\* document written by _write_transformed_psd
Step4TransformLayers ==
    /\ inwPc = "input"
    /\ inwPc' = "written"
    /\ LET transformed == [i \in 1..Len(inwLayers) |-> Inside_transformed_layer(inwLayers[i])]
       IN /\ inwTransformed' = transformed
          /\ inwCanvas' = <<MaxInwardCanvas, MaxInwardCanvas>>
          /\ inwRecords' = [i \in 1..Len(transformed) |->
                [bounds |-> RecordBounds(transformed[i], MaxInwardCanvas, MaxInwardCanvas),
                 channels |-> LayerChannels(transformed[i], MaxInwardCanvas, MaxInwardCanvas)]]
    /\ UNCHANGED inwLayers

InwStep ==
    \/ Step4TransformLayers

InwNext == InwStep /\ UNCHANGED <<pipeVars, encVars, cntVars, resVars, strokeVars, svVars, mkVars, cutVars, cropVars, outwVars, ftVars, pvVars, trimVars, snVars, ccVars, ixVars, nfVars, gnVars, rpVars, sqVars>>

SpecInward == InwInit /\ [][InwNext]_vars

\* the raster and the corner the inward table gives for source layer i
InwardTable(i) ==
    LET l == inwLayers[i]
        w == l.image.w
        h == l.image.h
    IN  CASE l.name = Name_part1 -> [x |-> l.x + w, y |-> l.y, image |-> Mirror(l.image)]
          [] l.name = Name_part2 -> [x |-> l.x, y |-> l.y + h, image |-> Flip(l.image)]
          [] l.name = Name_part3 -> [x |-> l.x - w, y |-> l.y, image |-> Mirror(l.image)]
          [] l.name = Name_part4 -> [x |-> l.x, y |-> l.y - h, image |-> Flip(l.image)]
          [] OTHER -> [x |-> l.x, y |-> l.y, image |-> l.image]

\* the channel bytes of a whole raster: alpha, red, green, blue
WholeChannels(img) ==
    <<PackU16(0) \o ChannelPlane(img, 4), PackU16(0) \o ChannelPlane(img, 1),
      PackU16(0) \o ChannelPlane(img, 2), PackU16(0) \o ChannelPlane(img, 3)>>

\* record i of the written document is what the table gives for layer i
WrittenAsTable(i) ==
    LET t == InwardTable(i)
    IN /\ inwRecords[i].bounds = <<t.y, t.x, t.y + t.image.h, t.x + t.image.w>>
       /\ inwRecords[i].channels = WholeChannels(t.image)

\* C17: in the written document every part layer has the flip and the corner
\* of the inward table, view and other layers keep raster and position, and
\* the canvas is unchanged, wherever the layers lie.
C17_InwardTable ==
    inwPc = "written" =>
        /\ inwCanvas = <<MaxInwardCanvas, MaxInwardCanvas>>
        /\ Len(inwRecords) = Len(inwLayers)
        /\ \A i \in 1..Len(inwLayers) : WrittenAsTable(i)

\* the layers handed to the writer follow the table for every position
TransformedAsTable ==
    inwPc = "written" =>
        \A i \in 1..Len(inwLayers) :
            LET t == InwardTable(i)
            IN /\ inwTransformed[i].x = t.x /\ inwTransformed[i].y = t.y
               /\ inwTransformed[i].image = t.image

\* the written document follows the table for the layers whose translated
\* box lies on the canvas
InwardTableOnCanvas ==
    inwPc = "written" =>
        /\ inwCanvas = <<MaxInwardCanvas, MaxInwardCanvas>>
        /\ \A i \in 1..Len(inwLayers) :
             LET t == InwardTable(i)
             IN (/\ t.x >= 0 /\ t.y >= 0
                 /\ t.x + t.image.w <= MaxInwardCanvas
                 /\ t.y + t.image.h <= MaxInwardCanvas) => WrittenAsTable(i)


-----------------------------------------------------------------------------
(* Outward transform: BinaryPSDTransformer.step2_calculate_transformations  *)
(* (scripts/transform_to_outside.py) and IntegratedProcessor.transform_layers *)

\* largest side of the source canvas
MaxOutwardCanvas == 3
\* largest side of a layer
MaxOutwardSide == 2

\* new_width = view_width + part1_width + part3_width + 400
CanvasPadding == 400

\* int(original_width * 3.5)
ExpandCanvas(v) == (7 * v) \div 2

OutwardNames == <<Name_view, Name_part1, Name_part2, Name_part3, Name_part4, Name_logo>>

\* the five roles and one more layer; layer i lies at (i % 2, i \div 2)
OutwardDocument(vw, vh, p1w, p2h, p3w, p4h) ==
    LET ws == <<vw, p1w, 1, p3w, 1, 1>>
        hs == <<vh, 1, p2h, 1, p4h, 1>>
    IN [i \in 1..6 |-> [name |-> OutwardNames[i], x |-> i % 2, y |-> i \div 2,
                        w |-> ws[i], h |-> hs[i]]]

OutwInit ==
    /\ PipeIdle /\ EncIdle /\ CntIdle /\ ResIdle /\ StrokeIdle /\ SvIdle /\ MkIdle /\ CutIdle /\ CropIdle /\ InwIdle /\ FtIdle /\ PvIdle /\ TrimIdle /\ SnIdle /\ CcIdle /\ IxIdle /\ NfIdle /\ GnIdle /\ RpIdle /\ SqIdle
    /\ outwCanvasIn \in ((MaxOutwardCanvas - 1)..MaxOutwardCanvas) \X ((MaxOutwardCanvas - 1)..MaxOutwardCanvas)
    /\ \E vw \in 1..MaxOutwardSide, vh \in 1..MaxOutwardSide, p1w \in 1..MaxOutwardSide,
          p2h \in 1..MaxOutwardSide, p3w \in 1..MaxOutwardSide, p4h \in 1..MaxOutwardSide :
            outwLayers = OutwardDocument(vw, vh, p1w, p2h, p3w, p4h)
    /\ outwImpl = "none"
    /\ outwPc = "input"
    /\ outwCanvas = <<0, 0>>
    /\ outwOffset = <<0, 0>>
    /\ outwFinal = <<>>

\* self.layers[role] / part_bounds[role]: the layer of a role
OutwardLayerOf(ls, role) == ls[CHOOSE i \in 1..Len(ls) : Lower(ls[i].name) = role]

\* the final position and the flip of one layer, from the centring offset
\* (_calculate_final_positions; the same table in transform_layers)
Outward_final_position(ls, layer, off) ==
    LET layer_name == Lower(layer.name)
        centered_x == layer.x + off[1]
        centered_y == layer.y + off[2]
    IN  CASE layer_name = Name_part1 ->
               [x |-> centered_x - OutwardLayerOf(ls, Name_part1).w, y |-> centered_y, flip |-> "horizontal"]
          [] layer_name = Name_part2 ->
               [x |-> centered_x, y |-> centered_y - OutwardLayerOf(ls, Name_part2).h, flip |-> "vertical"]
          [] layer_name = Name_part3 ->
               [x |-> centered_x + OutwardLayerOf(ls, Name_part3).w, y |-> centered_y, flip |-> "horizontal"]
          [] layer_name = Name_part4 ->
               [x |-> centered_x, y |-> centered_y + OutwardLayerOf(ls, Name_part4).h, flip |-> "vertical"]
          [] OTHER -> [x |-> centered_x, y |-> centered_y, flip |-> "none"]

\* BinaryPSDTransformer.step2_calculate_transformations
Script_step2_calculate_transformations ==
    /\ outwPc = "input"
    /\ outwImpl' = "script"
    /\ outwPc' = "done"
    /\ LET new_width == OutwardLayerOf(outwLayers, Name_view).w + OutwardLayerOf(outwLayers, Name_part1).w
                          + OutwardLayerOf(outwLayers, Name_part3).w + CanvasPadding
           new_height == OutwardLayerOf(outwLayers, Name_view).h + OutwardLayerOf(outwLayers, Name_part2).h
                          + OutwardLayerOf(outwLayers, Name_part4).h + CanvasPadding
           off == <<(new_width - outwCanvasIn[1]) \div 2, (new_height - outwCanvasIn[2]) \div 2>>
       IN /\ outwCanvas' = <<new_width, new_height>>
          /\ outwOffset' = off
          /\ outwFinal' = [i \in 1..Len(outwLayers) |-> Outward_final_position(outwLayers, outwLayers[i], off)]
    /\ UNCHANGED <<outwCanvasIn, outwLayers>>

\* IntegratedProcessor.transform_layers
Integrated_transform_layers ==
    /\ outwPc = "input"
    /\ outwImpl' = "integrated"
    /\ outwPc' = "done"
    /\ LET new_width == ExpandCanvas(outwCanvasIn[1])
           new_height == ExpandCanvas(outwCanvasIn[2])
           off == <<(new_width - outwCanvasIn[1]) \div 2, (new_height - outwCanvasIn[2]) \div 2>>
       IN /\ outwCanvas' = <<new_width, new_height>>
          /\ outwOffset' = off
          /\ outwFinal' = [i \in 1..Len(outwLayers) |-> Outward_final_position(outwLayers, outwLayers[i], off)]
    /\ UNCHANGED <<outwCanvasIn, outwLayers>>

OutwStep ==
    \/ Script_step2_calculate_transformations
    \/ Integrated_transform_layers

OutwNext == OutwStep /\ UNCHANGED <<pipeVars, encVars, cntVars, resVars, strokeVars, svVars, mkVars, cutVars, cropVars, inwVars, ftVars, pvVars, trimVars, snVars, ccVars, ixVars, nfVars, gnVars, rpVars, sqVars>>

SpecOutward == OutwInit /\ [][OutwNext]_vars

\* the canvas the outward geometry gives: view + the two parts of the axis + padding
OutwardCanvasOfParts ==
    <<OutwardLayerOf(outwLayers, Name_view).w + OutwardLayerOf(outwLayers, Name_part1).w
        + OutwardLayerOf(outwLayers, Name_part3).w + CanvasPadding,
      OutwardLayerOf(outwLayers, Name_view).h + OutwardLayerOf(outwLayers, Name_part2).h
        + OutwardLayerOf(outwLayers, Name_part4).h + CanvasPadding>>

\* every layer is offset by the centring offset, then moved and flipped by role
OutwardMoves ==
    /\ outwOffset = <<(outwCanvas[1] - outwCanvasIn[1]) \div 2, (outwCanvas[2] - outwCanvasIn[2]) \div 2>>
    /\ Len(outwFinal) = Len(outwLayers)
    /\ \A i \in 1..Len(outwLayers) :
         LET l == outwLayers[i]
             cx == l.x + outwOffset[1]
             cy == l.y + outwOffset[2]
         IN  outwFinal[i] =
               IF l.name = Name_part1 THEN [x |-> cx - l.w, y |-> cy, flip |-> "horizontal"]
               ELSE IF l.name = Name_part3 THEN [x |-> cx + l.w, y |-> cy, flip |-> "horizontal"]
               ELSE IF l.name = Name_part2 THEN [x |-> cx, y |-> cy - l.h, flip |-> "vertical"]
               ELSE IF l.name = Name_part4 THEN [x |-> cx, y |-> cy + l.h, flip |-> "vertical"]
               ELSE [x |-> cx, y |-> cy, flip |-> "none"]

\* C18: the new canvas is view + part1 + part3 + padding wide and view + part2 +
\* part4 + padding high, every layer is offset by half the growth and then
\* moved and flipped by role, in every implementation of the outward transform.
C18_OutwardGeometry ==
    outwPc = "done" => (outwCanvas = OutwardCanvasOfParts /\ OutwardMoves)

\* the script's transform has this geometry
ScriptOutwardGeometry ==
    (outwPc = "done" /\ outwImpl = "script") => (outwCanvas = OutwardCanvasOfParts /\ OutwardMoves)

\* IntegratedProcessor's canvas is 3.5 times the source canvas; its offsets
\* and moves follow the same table
IntegratedOutwardGeometry ==
    (outwPc = "done" /\ outwImpl = "integrated") =>
        /\ outwCanvas = <<ExpandCanvas(outwCanvasIn[1]), ExpandCanvas(outwCanvasIn[2])>>
        /\ OutwardMoves


-----------------------------------------------------------------------------
(* Inward transform, then outward transform of the written document         *)

\* side of the canvas of the source document
MaxFlipCanvas == 3
\* largest side of the layer whose place varies
MaxFlipPart == 2

\* the layer a reader finds in the document for a layer handed to the writer
\* of _write_layer_info / _write_layer_channels: the clamped corner and the
\* raster cropped from its top-left corner
WrittenLayer(layer, cw, ch) ==
    LET b == RecordBounds(layer, cw, ch)
        crop_width == Min(layer.image.w, cw - b[2])
        crop_height == Min(layer.image.h, ch - b[1])
    IN [name |-> layer.name, x |-> b[2], y |-> b[1], w |-> b[4] - b[2], h |-> b[3] - b[1],
        image |-> CropTopLeft(layer.image, crop_width, crop_height)]

\* the documents whose inward transform starts every layer before the right
\* and bottom edge of the canvas, so that every record has its channel data
FlipDocuments ==
    { d \in { InwardDocument(s, x, y, w, h) :
                s \in 2..5, x \in -1..MaxFlipCanvas, y \in -1..MaxFlipCanvas,
                w \in 1..MaxFlipPart, h \in 1..MaxFlipPart } :
        \A i \in 1..Len(d) :
            /\ Inside_transformed_layer(d[i]).x < MaxFlipCanvas
            /\ Inside_transformed_layer(d[i]).y < MaxFlipCanvas }

FtInit ==
    /\ PipeIdle /\ EncIdle /\ CntIdle /\ ResIdle /\ StrokeIdle /\ SvIdle /\ MkIdle /\ CutIdle /\ CropIdle /\ InwIdle /\ OutwIdle /\ PvIdle /\ TrimIdle /\ SnIdle /\ CcIdle /\ IxIdle /\ NfIdle /\ GnIdle /\ RpIdle /\ SqIdle
    /\ ftLayers \in FlipDocuments
    /\ ftPc = "input"
    /\ ftInward = <<>>
    /\ ftOffset = <<0, 0>>
    /\ ftOutward = <<>>

\* InsideTransformer.step4_transform_layers, through the written document
FtInward ==
    /\ ftPc = "input"
    /\ ftPc' = "inward"
    /\ ftInward' = [i \in 1..Len(ftLayers) |->
            WrittenLayer(Inside_transformed_layer(ftLayers[i]), MaxFlipCanvas, MaxFlipCanvas)]
    /\ UNCHANGED <<ftLayers, ftOffset, ftOutward>>

\* BinaryPSDTransformer step2 and step3 on that document
FtOutward ==
    /\ ftPc = "inward"
    /\ ftPc' = "outward"
    /\ LET new_width == OutwardLayerOf(ftInward, Name_view).w + OutwardLayerOf(ftInward, Name_part1).w
                          + OutwardLayerOf(ftInward, Name_part3).w + CanvasPadding
           new_height == OutwardLayerOf(ftInward, Name_view).h + OutwardLayerOf(ftInward, Name_part2).h
                          + OutwardLayerOf(ftInward, Name_part4).h + CanvasPadding
           off == <<(new_width - MaxFlipCanvas) \div 2, (new_height - MaxFlipCanvas) \div 2>>
       IN /\ ftOffset' = off
          /\ ftOutward' = [i \in 1..Len(ftInward) |->
                LET pos_info == Outward_final_position(ftInward, ftInward[i], off)
                    layer_image == IF pos_info.flip = "horizontal" THEN Mirror(ftInward[i].image)
                                   ELSE IF pos_info.flip = "vertical" THEN Flip(ftInward[i].image)
                                   ELSE ftInward[i].image
                IN WrittenLayer([name |-> ftInward[i].name, x |-> pos_info.x, y |-> pos_info.y,
                                 image |-> layer_image], new_width, new_height)]
    /\ UNCHANGED <<ftLayers, ftInward>>

FtStep ==
    \/ FtInward
    \/ FtOutward

FtNext == FtStep /\ UNCHANGED <<pipeVars, encVars, cntVars, resVars, strokeVars, svVars, mkVars, cutVars, cropVars, inwVars, outwVars, pvVars, trimVars, snVars, ccVars, ixVars, nfVars, gnVars, rpVars, sqVars>>

SpecFlipTranslate == FtInit /\ [][FtNext]_vars

PartLayers == { i \in 1..Len(ftLayers) : ftLayers[i].name \in {Name_part1, Name_part2, Name_part3, Name_part4} }

\* layer i is back at its place, moved by the centring offset, with its raster
BackInPlace(i) ==
    /\ ftOutward[i].x = ftLayers[i].x + ftOffset[1]
    /\ ftOutward[i].y = ftLayers[i].y + ftOffset[2]
    /\ ftOutward[i].w = ftLayers[i].image.w
    /\ ftOutward[i].h = ftLayers[i].image.h
    /\ ftOutward[i].image = ftLayers[i].image

\* C19: after the inward and then the outward transform every part layer has
\* its original bounding box moved by exactly the centring offset and its
\* original raster.
C19_FlipTranslate ==
    ftPc = "outward" => \A i \in PartLayers : BackInPlace(i)

\* the box of layer i after the inward table lies on the canvas
InwardBoxOnCanvas(i) ==
    LET t == Inside_transformed_layer(ftLayers[i])
    IN /\ t.x >= 0 /\ t.y >= 0
       /\ t.x + t.image.w <= MaxFlipCanvas /\ t.y + t.image.h <= MaxFlipCanvas

\* the parts whose inward box lies on the canvas come back in place
FlipTranslateOnCanvas ==
    ftPc = "outward" => \A i \in PartLayers : InwardBoxOnCanvas(i) => BackInPlace(i)

\* without the writer in between, the two tables cancel for every position
TablesCancel ==
    ftPc = "outward" =>
        \A i \in PartLayers :
            LET t == Inside_transformed_layer(ftLayers[i])
                ts == [k \in 1..Len(ftLayers) |->
                         LET u == Inside_transformed_layer(ftLayers[k])
                         IN [name |-> u.name, x |-> u.x, y |-> u.y, w |-> u.image.w, h |-> u.image.h]]
                p == Outward_final_position(ts, ts[i], ftOffset)
            IN /\ p.x = ftLayers[i].x + ftOffset[1]
               /\ p.y = ftLayers[i].y + ftOffset[2]
               /\ (IF p.flip = "horizontal" THEN Mirror(t.image) ELSE Flip(t.image)) = ftLayers[i].image


-----------------------------------------------------------------------------
(* PSDProcessorCore._generate_final_preview: the layer loop                 *)

\* Image.new('RGBA', (psd.width, psd.height), (0, 0, 0, 0))
PreviewBlank(cw, ch) == [w |-> cw, h |-> ch, px |-> [k \in 1..(cw * ch) |-> <<0, 0, 0, 0>>]]

\* canvas.paste(li, (max(0, left), max(0, top)), li)
PreviewPasteLayer(cnv, layer) ==
    LET px0 == Max(0, layer.x)
        py0 == Max(0, layer.y)
    IN [w |-> cnv.w, h |-> cnv.h,
        px |-> [k \in 1..(cnv.w * cnv.h) |->
            LET cx == (k - 1) % cnv.w
                cy == (k - 1) \div cnv.w
            IN IF /\ cx >= px0 /\ cx < px0 + layer.image.w
                  /\ cy >= py0 /\ cy < py0 + layer.image.h
               THEN PastePixel(cnv.px[k], PixelAt(layer.image, cx - px0, cy - py0))
               ELSE cnv.px[k]]]

PreviewLayer(name, visible, p, x, y, w, h) ==
    [name |-> name, x |-> x, y |-> y, image |-> PatternImage(w, h, p), visible |-> visible]

\* the layers that may lie on top of the first one
PreviewOverlays ==
    {PreviewLayer(Name_part2, TRUE, 0, 0, 0, 1, 1),
     PreviewLayer(Name_part2, TRUE, 1, MaxCanvas - 1, 0, 1, 1),
     PreviewLayer(Name_view, TRUE, 0, 0, 0, 1, 1),
     PreviewLayer(Name_logo, FALSE, 0, 0, 0, 1, 1)}

PvInit ==
    /\ PipeIdle /\ EncIdle /\ CntIdle /\ ResIdle /\ StrokeIdle /\ SvIdle /\ MkIdle /\ CutIdle /\ CropIdle /\ InwIdle /\ OutwIdle /\ FtIdle /\ TrimIdle /\ SnIdle /\ CcIdle /\ IxIdle /\ NfIdle /\ GnIdle /\ RpIdle /\ SqIdle
    /\ \E name \in {Name_view, Name_part1, Name_logo}, visible \in BOOLEAN, p \in 0..2,
          x \in -1..MaxCanvas, y \in -1..MaxCanvas,
          w \in 1..MaxRaster, h \in 1..MaxRaster,
          rest \in {<<>>} \cup {<<o>> : o \in PreviewOverlays} :
            pvLayers = <<PreviewLayer(name, visible, p, x, y, w, h)>> \o rest
    /\ pvPc = "loop"
    /\ pvIndex = 0
    /\ pvCanvas = PreviewBlank(MaxCanvas, MaxCanvas)
    /\ pvHiddenView = FALSE

\* if lname == 'view': hidden_view = True; continue
PreviewSkipView ==
    /\ pvPc = "loop" /\ pvIndex < Len(pvLayers)
    /\ Lower(sanitize_name(pvLayers[pvIndex + 1].name)) = Name_view
    /\ pvHiddenView' = TRUE
    /\ pvIndex' = pvIndex + 1
    /\ UNCHANGED <<pvLayers, pvPc, pvCanvas>>

\* if hasattr(layer, 'visible') and not layer.visible: continue
PreviewSkipHidden ==
    /\ pvPc = "loop" /\ pvIndex < Len(pvLayers)
    /\ Lower(sanitize_name(pvLayers[pvIndex + 1].name)) # Name_view
    /\ ~pvLayers[pvIndex + 1].visible
    /\ pvIndex' = pvIndex + 1
    /\ UNCHANGED <<pvLayers, pvPc, pvCanvas, pvHiddenView>>

PreviewPaste ==
    /\ pvPc = "loop" /\ pvIndex < Len(pvLayers)
    /\ Lower(sanitize_name(pvLayers[pvIndex + 1].name)) # Name_view
    /\ pvLayers[pvIndex + 1].visible
    /\ pvCanvas' = PreviewPasteLayer(pvCanvas, pvLayers[pvIndex + 1])
    /\ pvIndex' = pvIndex + 1
    /\ UNCHANGED <<pvLayers, pvPc, pvHiddenView>>

PreviewLoopEnd ==
    /\ pvPc = "loop" /\ pvIndex = Len(pvLayers)
    /\ pvPc' = "done"
    /\ UNCHANGED <<pvLayers, pvIndex, pvCanvas, pvHiddenView>>

PvStep ==
    \/ PreviewSkipView
    \/ PreviewSkipHidden
    \/ PreviewPaste
    \/ PreviewLoopEnd

PvNext == PvStep /\ UNCHANGED <<pipeVars, encVars, cntVars, resVars, strokeVars, svVars, mkVars, cutVars, cropVars, inwVars, outwVars, ftVars, trimVars, snVars, ccVars, ixVars, nfVars, gnVars, rpVars, sqVars>>

SpecPreview == PvInit /\ [][PvNext]_vars

\* layer i is visible and is not the view layer
Contributes(i) ==
    pvLayers[i].visible /\ Lower(sanitize_name(pvLayers[i].name)) # Name_view

\* the alpha composite at canvas pixel (cx, cy) of the contributing layers
\* among the first n, each at its own position
RECURSIVE PreviewFlattened(_, _, _)
PreviewFlattened(n, cx, cy) ==
    IF n = 0 THEN <<0, 0, 0, 0>>
    ELSE LET below == PreviewFlattened(n - 1, cx, cy)
             l == pvLayers[n]
         IN IF /\ Contributes(n)
               /\ cx >= l.x /\ cx < l.x + l.image.w
               /\ cy >= l.y /\ cy < l.y + l.image.h
            THEN Over(below, PixelAt(l.image, cx - l.x, cy - l.y))
            ELSE below

\* C20: the preview canvas is the alpha composite, in paint order, of exactly
\* the visible layers not named view, each at its own position, on a
\* transparent canvas (one level of rounding is allowed; colour is compared
\* wherever the result is not fully transparent).
C20_PreviewIsFlattening ==
    pvPc = "done" =>
        \A k \in 1..(pvCanvas.w * pvCanvas.h) :
            LET want == PreviewFlattened(Len(pvLayers), (k - 1) % pvCanvas.w, (k - 1) \div pvCanvas.w)
            IN /\ Near(pvCanvas.px[k][4], want[4])
               /\ want[4] > 0 => \A c \in 1..3 : Near(pvCanvas.px[k][c], want[c])

\* the pastes of the contributing layers among the first n, in paint order
RECURSIVE PreviewPasted(_)
PreviewPasted(n) ==
    IF n = 0 THEN PreviewBlank(MaxCanvas, MaxCanvas)
    ELSE IF Contributes(n) THEN PreviewPasteLayer(PreviewPasted(n - 1), pvLayers[n])
         ELSE PreviewPasted(n - 1)

\* the canvas starts transparent and only the visible layers not named view
\* are pasted on it, in paint order
OnlyContributingLayersPasted ==
    /\ (pvPc = "loop" /\ pvIndex = 0) => pvCanvas = PreviewBlank(MaxCanvas, MaxCanvas)
    /\ pvPc \in {"loop", "done"} => pvCanvas = PreviewPasted(pvIndex)

\* every pixel of every contributing layer is opaque or fully transparent, and
\* no contributing layer starts left of or above the canvas
OpaqueAndOnCanvas ==
    \A i \in 1..Len(pvLayers) :
        Contributes(i) =>
            /\ pvLayers[i].x >= 0 /\ pvLayers[i].y >= 0
            /\ \A k \in 1..Len(pvLayers[i].image.px) : pvLayers[i].image.px[k][4] \in {0, 255}

\* for such documents the canvas is the alpha composite
PreviewOfOpaqueLayers ==
    (pvPc = "done" /\ OpaqueAndOnCanvas) =>
        \A k \in 1..(pvCanvas.w * pvCanvas.h) :
            LET want == PreviewFlattened(Len(pvLayers), (k - 1) % pvCanvas.w, (k - 1) \div pvCanvas.w)
            IN /\ pvCanvas.px[k][4] = want[4]
               /\ want[4] > 0 => pvCanvas.px[k] = want


\* a preview of a document with an opaque pixel under an opaque pixel
PreviewOfOpaqueLayers_Reached ==
    /\ pvPc = "done" /\ OpaqueAndOnCanvas /\ Len(pvLayers) = 2
    /\ Contributes(1) /\ Contributes(2)
    /\ pvCanvas.px[1] = <<200, 10, 20, 255>>

-----------------------------------------------------------------------------
(* Trimming transparent margins: _generate_final_preview,                   *)
(* _generate_preview_image and _trim_transparent_edges                      *)

\* largest width and height of the raster
MaxTrimWidth == 3
MaxTrimHeight == 2

TrimPixels == {<<0, 0, 0, 0>>, <<255, 255, 255, 0>>, <<10, 20, 30, 255>>}

TrimRasters ==
    { [w |-> w, h |-> h, px |-> p] :
        w \in 1..MaxTrimWidth, h \in 1..MaxTrimHeight,
        p \in UNION { [1..(ww * hh) -> TrimPixels] : ww \in 1..MaxTrimWidth, hh \in 1..MaxTrimHeight } }

\* Image.getbbox: <<left, top, right, bottom>> of the pixels that count, <<>>
\* for None.  On a single band a pixel counts when it is not 0.  On an RGBA
\* image a pixel counts when its alpha is not 0 (alpha_only, the default from
\* Pillow 10) or when any band is not 0 (earlier Pillow).
GetBBox(img, mode) ==
    LET hits == { k \in 1..Len(img.px) :
                    IF mode = "alpha" THEN img.px[k][4] # 0 ELSE img.px[k] # <<0, 0, 0, 0>> }
    IN IF hits = {} THEN <<>>
       ELSE <<SetMin({ (k - 1) % img.w : k \in hits }),
              SetMin({ (k - 1) \div img.w : k \in hits }),
              SetMax({ (k - 1) % img.w : k \in hits }) + 1,
              SetMax({ (k - 1) \div img.w : k \in hits }) + 1>>

\* Image.crop(bbox) for a box inside the image
CropBox(img, b) ==
    [w |-> b[3] - b[1], h |-> b[4] - b[2],
     px |-> [k \in 1..((b[3] - b[1]) * (b[4] - b[2])) |->
                PixelAt(img, b[1] + ((k - 1) % (b[3] - b[1])), b[2] + ((k - 1) \div (b[3] - b[1])))]]

\* result_img.paste(gray_overlay, mask=alpha) on the transparent canvas
GrayFill(img) ==
    [w |-> img.w, h |-> img.h,
     px |-> [k \in 1..Len(img.px) |->
                PasteByMask(<<0, 0, 0, 0>>, <<128, 128, 128, 255>>, img.px[k][4])]]

TrimInit ==
    /\ PipeIdle /\ EncIdle /\ CntIdle /\ ResIdle /\ StrokeIdle /\ SvIdle /\ MkIdle /\ CutIdle /\ CropIdle /\ InwIdle /\ OutwIdle /\ FtIdle /\ PvIdle /\ SnIdle /\ CcIdle /\ IxIdle /\ NfIdle /\ GnIdle /\ RpIdle /\ SqIdle
    /\ trimIn \in { r \in TrimRasters : Len(r.px) = r.w * r.h }
    /\ trimSite = "none"
    /\ trimPc = "input"
    /\ trimSubject = [w |-> 0, h |-> 0, px |-> <<>>]
    /\ trimOut = [w |-> 0, h |-> 0, px |-> <<>>]

\* _generate_final_preview: bbox = alpha.getbbox(); crop if bbox
FinalPreviewTrim ==
    /\ trimPc = "input"
    /\ trimSite' = "final_preview"
    /\ trimPc' = "done"
    /\ trimSubject' = trimIn
    /\ LET bbox == GetBBox(trimIn, "alpha")
       IN trimOut' = IF bbox # <<>> THEN CropBox(trimIn, bbox) ELSE trimIn
    /\ UNCHANGED trimIn

\* _generate_preview_image: the merged part layers are filled with grey and
\* the result is cropped to the bbox of the merged alpha
TemplatePreviewTrim ==
    /\ trimPc = "input"
    /\ trimSite' = "template_preview"
    /\ trimPc' = "done"
    /\ trimSubject' = GrayFill(trimIn)
    /\ LET bbox == GetBBox(trimIn, "alpha")
       IN trimOut' = IF bbox # <<>> THEN CropBox(GrayFill(trimIn), bbox) ELSE GrayFill(trimIn)
    /\ UNCHANGED trimIn

\* _trim_transparent_edges: bbox = composite_image.getbbox() on the RGBA image
TrimTransparentEdges ==
    /\ trimPc = "input"
    /\ trimSite' = "trim_edges"
    /\ trimPc' = "done"
    /\ trimSubject' = trimIn
    /\ \E mode \in {"alpha", "any"} :
        LET bbox == GetBBox(trimIn, mode)
        IN trimOut' = IF bbox = <<>> THEN trimIn
                      ELSE IF bbox = <<0, 0, trimIn.w, trimIn.h>> THEN trimIn
                      ELSE CropBox(trimIn, bbox)
    /\ UNCHANGED trimIn

TrimStep ==
    \/ FinalPreviewTrim
    \/ TemplatePreviewTrim
    \/ TrimTransparentEdges

TrimNext == TrimStep /\ UNCHANGED <<pipeVars, encVars, cntVars, resVars, strokeVars, svVars, mkVars, cutVars, cropVars, inwVars, outwVars, ftVars, pvVars, snVars, ccVars, ixVars, nfVars, gnVars, rpVars, sqVars>>

SpecTrim == TrimInit /\ [][TrimNext]_vars

\* the pixels of the trimmed raster with alpha above 0
VisiblePixels == { k \in 1..Len(trimSubject.px) : trimSubject.px[k][4] > 0 }

\* the smallest rectangle holding every pixel with alpha above 0
VisibleBox ==
    <<SetMin({ (k - 1) % trimSubject.w : k \in VisiblePixels }),
      SetMin({ (k - 1) \div trimSubject.w : k \in VisiblePixels }),
      SetMax({ (k - 1) % trimSubject.w : k \in VisiblePixels }) + 1,
      SetMax({ (k - 1) \div trimSubject.w : k \in VisiblePixels }) + 1>>

TrimmedToVisible ==
    IF VisiblePixels = {} THEN trimOut = trimSubject
    ELSE trimOut = CropBox(trimSubject, VisibleBox)

PreviewsTrimToVisible ==
    (trimPc = "done" /\ trimSite \in {"final_preview", "template_preview"}) => TrimmedToVisible

\* _trim_transparent_edges does the same on rasters whose transparent pixels
\* are all (0, 0, 0, 0)
EdgesTrimOfBlankMargins ==
    (/\ trimPc = "done" /\ trimSite = "trim_edges"
     /\ \A k \in 1..Len(trimIn.px) : trimIn.px[k][4] = 0 => trimIn.px[k] = <<0, 0, 0, 0>>)
        => TrimmedToVisible


-----------------------------------------------------------------------------
(* sanitize_name on arbitrary strings                                       *)

\* longest input string
MaxNameLen == 3

\* NUL, tab, LF, ESC, space, 'a', DEL, no-break space
NameAlphabet == {0, 9, 10, 27, 32, 97, 127, 160}

RECURSIVE StringsUpTo(_)
StringsUpTo(n) ==
    IF n = 0 THEN {<<>>}
    ELSE LET shorter == StringsUpTo(n - 1)
         IN shorter \cup { Append(s, c) : s \in { t \in shorter : Len(t) = n - 1 }, c \in NameAlphabet }

SnInit ==
    /\ PipeIdle /\ EncIdle /\ CntIdle /\ ResIdle /\ StrokeIdle /\ SvIdle /\ MkIdle /\ CutIdle /\ CropIdle /\ InwIdle /\ OutwIdle /\ FtIdle /\ PvIdle /\ TrimIdle /\ CcIdle /\ IxIdle /\ NfIdle /\ GnIdle /\ RpIdle /\ SqIdle
    /\ \/ snInput = [none |-> TRUE, s |-> <<>>]
       \/ \E s \in StringsUpTo(MaxNameLen) : snInput = [none |-> FALSE, s |-> s]
    /\ snPc = "input"
    /\ snOutput = <<>>

\* a call of sanitize_name; `if not name` takes None and '' alike
SanitizeCall ==
    /\ snPc = "input"
    /\ snPc' = "returned"
    /\ snOutput' = IF snInput.none THEN Name_unnamed_layer ELSE sanitize_name(snInput.s)
    /\ UNCHANGED snInput

\* the caller lower-cases the returned name to find the role
SanitizeLower ==
    /\ snPc = "returned"
    /\ snPc' = "lowered"
    /\ snOutput' = Lower(snOutput)
    /\ UNCHANGED snInput

SnStep ==
    \/ SanitizeCall
    \/ SanitizeLower

SnNext == SnStep /\ UNCHANGED <<pipeVars, encVars, cntVars, resVars, strokeVars, svVars, mkVars, cutVars, cropVars, inwVars, outwVars, ftVars, pvVars, trimVars, ccVars, ixVars, nfVars, gnVars, rpVars, sqVars>>

SpecSanitize == SnInit /\ [][SnNext]_vars

\* NUL and the control characters other than tab, LF and CR
Removed(c) == c = 0 \/ (c < 32 /\ c \notin {9, 10, 13})

\* the input without the removed characters
Filtered == SelectSeq(snInput.s, LAMBDA c : ~Removed(c))

\* the positions of Filtered that hold no whitespace
InkPositions == { i \in 1..Len(Filtered) : ~IsSpace(Filtered[i]) }

\* Filtered from its first to its last character that is not whitespace
CleanedInput ==
    IF snInput.none \/ InkPositions = {} THEN <<>>
    ELSE SubSeq(Filtered, SetMin(InkPositions), SetMax(InkPositions))

\* C23: sanitize_name returns the input with NUL and the control characters
\* other than tab, LF and CR removed and the ends trimmed: a non-empty string
\* without those characters and without whitespace at its ends; it returns
\* 'unnamed_layer' when that string is empty (also for None and '').
C23_SanitizeName ==
    snPc = "returned" =>
        IF CleanedInput = <<>>
        THEN snOutput = Name_unnamed_layer
        ELSE /\ snOutput = CleanedInput
             /\ snOutput # <<>>
             /\ \A i \in 1..Len(snOutput) : ~Removed(snOutput[i])
             /\ ~IsSpace(snOutput[1]) /\ ~IsSpace(snOutput[Len(snOutput)])

\* a name with a leading space, a NUL, an ESC and a trailing tab came back as 'a'
C23_Witness ==
    /\ snPc = "returned"
    /\ snInput \in {[none |-> FALSE, s |-> <<32, 0, 97>>], [none |-> FALSE, s |-> <<27, 97, 9>>]}
    /\ snOutput = <<97>>


(***************************************************************************)
(* Concurrent calls.  The server runs every request in its own thread      *)
(* (app.run(threaded=True)); generate_final_psd and save_template take no  *)
(* lock.  Each call names its result by the millisecond clock, writes its  *)
(* artifacts under that name, then loads the index, adds its entry and     *)
(* saves the index.                                                        *)
(***************************************************************************)
MaxClock == 2

Threads == {1, 2}

ConcurrentCalls == {"generate_final_psd", "save_template"}

\* int(datetime.now().timestamp() * 1000)
MillisecondId(clock) == clock

\* results index: index_data["results"][result_id] = entry;
\* template index: templates.insert(0, template_record)
AddEntry(kind, index, id, owner) ==
    IF kind = "generate_final_psd"
    THEN {e \in index : e[1] # id} \cup {<<id, owner>>}
    ELSE index \cup {<<id, owner>>}

CcInit ==
    /\ PipeIdle /\ EncIdle /\ CntIdle /\ ResIdle /\ StrokeIdle /\ SvIdle /\ MkIdle /\ CutIdle /\ CropIdle /\ InwIdle /\ OutwIdle /\ FtIdle /\ PvIdle /\ TrimIdle /\ SnIdle /\ IxIdle /\ NfIdle /\ GnIdle /\ RpIdle /\ SqIdle
    /\ ccKind \in ConcurrentCalls
    /\ ccClock = 0
    /\ ccPc = [t \in Threads |-> "called"]
    /\ ccId = [t \in Threads |-> 0]
    /\ ccFiles = [p \in 0..(MaxClock + 1) |-> 0]
    /\ ccLocal = [t \in Threads |-> {}]
    /\ ccIndex = {}

\* time passes between any two steps of any thread
ClockTick ==
    /\ ccClock < MaxClock
    /\ ccClock' = ccClock + 1
    /\ UNCHANGED <<ccKind, ccPc, ccId, ccFiles, ccLocal, ccIndex>>

\* result_id = f"result_{...}" / template_id = f"tpl_{...}"
AssignId(t) ==
    /\ ccPc[t] = "called"
    /\ ccId' = [ccId EXCEPT ![t] = MillisecondId(ccClock)]
    /\ ccPc' = [ccPc EXCEPT ![t] = "named"]
    /\ UNCHANGED <<ccKind, ccClock, ccFiles, ccLocal, ccIndex>>

\* the artifacts of the call, every path derived from the identifier
WriteArtifacts(t) ==
    /\ ccPc[t] = "named"
    /\ ccFiles' = [ccFiles EXCEPT ![ccId[t]] = t]
    /\ ccPc' = [ccPc EXCEPT ![t] = "written"]
    /\ UNCHANGED <<ccKind, ccClock, ccId, ccLocal, ccIndex>>

\* _load_results_index() / _load_templates_index()
LoadIndex(t) ==
    /\ ccPc[t] = "written"
    /\ ccLocal' = [ccLocal EXCEPT ![t] = ccIndex]
    /\ ccPc' = [ccPc EXCEPT ![t] = "loaded"]
    /\ UNCHANGED <<ccKind, ccClock, ccId, ccFiles, ccIndex>>

\* _save_results_index(index_data) / _save_templates_index(templates), then return
SaveIndex(t) ==
    /\ ccPc[t] = "loaded"
    /\ ccIndex' = AddEntry(ccKind, ccLocal[t], ccId[t], t)
    /\ ccPc' = [ccPc EXCEPT ![t] = "returned"]
    /\ UNCHANGED <<ccKind, ccClock, ccId, ccFiles, ccLocal>>

CcStep ==
    \/ ClockTick
    \/ \E t \in Threads : AssignId(t)
    \/ \E t \in Threads : WriteArtifacts(t)
    \/ \E t \in Threads : LoadIndex(t)
    \/ \E t \in Threads : SaveIndex(t)

CcNext == CcStep /\ UNCHANGED <<pipeVars, encVars, cntVars, resVars, strokeVars, svVars, mkVars, cutVars, cropVars, inwVars, outwVars, ftVars, pvVars, trimVars, snVars, ixVars, nfVars, gnVars, rpVars, sqVars>>

SpecConcurrent == CcInit /\ [][CcNext]_vars

BothReturned == ccKind # "off" /\ \A t \in Threads : ccPc[t] = "returned"

\* C22: when two calls of generate_final_psd (or of save_template) run
\* concurrently, in every interleaving each call has its own identifier and
\* artifact paths, each call's files hold only that call's result, and after
\* both have returned the index holds the entries of both.
C22_NoInterference ==
    BothReturned =>
        /\ ccId[1] # ccId[2]
        /\ \A t \in Threads : ccFiles[ccId[t]] = t
        /\ \A t \in Threads : <<ccId[t], t>> \in ccIndex

\* What the code does guarantee: when the two identifiers differ, each
\* call's artifacts hold that call's result.
DistinctIdsKeepArtifacts ==
    (BothReturned /\ ccId[1] # ccId[2]) => \A t \in Threads : ccFiles[ccId[t]] = t

\* Two calls that run one after the other, more than a millisecond apart,
\* both end up in the index.
SerialCallsKeepBoth ==
    (BothReturned /\ ccId[1] # ccId[2] /\ <<ccId[1], 1>> \in ccLocal[2])
        => \A t \in Threads : <<ccId[t], t>> \in ccIndex

\* The same millisecond gives both calls one identifier.
SameMillisecond == BothReturned /\ ccId[1] = ccId[2]

\* Both calls loaded the index before either saved: one entry is lost.
LostEntry ==
    BothReturned /\ ccId[1] # ccId[2] /\ \E t \in Threads : <<ccId[t], t>> \notin ccIndex


(***************************************************************************)
(* Writers of the template index.  The index file is a list of template    *)
(* records; here a set of facts: <<"tpl", id, "">> the record exists,      *)
(* <<"comp", id, c>> it lists component c, <<"ref", id, w>> it has a       *)
(* stroke reference of width w.  Every writer loads the whole list,        *)
(* changes it in memory and saves the whole list.                          *)
(***************************************************************************)
\* keys of strokeReferences are str(width)
UpdateWidths == {"2", "5"}

TheTemplate == "tpl_1"

NewTemplate == "tpl_2"

OldComponent == "comp_1"

NewComponent == "comp_2"

RecordOf(id) == <<"tpl", id, "">>

\* the operations a thread may run on the index
UpdateOps == {[name |-> "_update_template_record", arg |-> w] : w \in UpdateWidths}

IndexWriters ==
    UpdateOps \cup
    {[name |-> n, arg |-> ""] : n \in {"save_template", "save_component", "delete_component", "delete_template"}}

\* the list an operation saves, from the list it loaded
ModifyIndex(op, templates) ==
    CASE op.name = "_update_template_record" ->
            IF RecordOf(TheTemplate) \in templates
            THEN templates \cup {<<"ref", TheTemplate, op.arg>>}
            ELSE templates
      [] op.name = "save_template" -> templates \cup {RecordOf(NewTemplate)}
      [] op.name = "save_component" ->
            IF RecordOf(TheTemplate) \in templates
            THEN templates \cup {<<"comp", TheTemplate, NewComponent>>}
            ELSE templates
      [] op.name = "delete_component" -> templates \ {<<"comp", TheTemplate, OldComponent>>}
      [] op.name = "delete_template" -> {f \in templates : f[2] # TheTemplate}

\* _update_template_record saves only if it found the record; the others always save
SavesIndex(op, templates) ==
    op.name = "_update_template_record" => RecordOf(TheTemplate) \in templates

StartIndexes ==
    {{RecordOf(TheTemplate)} \cup comps \cup refs :
        comps \in SUBSET {<<"comp", TheTemplate, OldComponent>>},
        refs \in SUBSET {<<"ref", TheTemplate, w>> : w \in UpdateWidths}}

IxInit ==
    /\ PipeIdle /\ EncIdle /\ CntIdle /\ ResIdle /\ StrokeIdle /\ SvIdle /\ MkIdle /\ CutIdle /\ CropIdle /\ InwIdle /\ OutwIdle /\ FtIdle /\ PvIdle /\ TrimIdle /\ SnIdle /\ CcIdle /\ NfIdle /\ GnIdle /\ RpIdle /\ SqIdle
    /\ \E u \in UpdateOps, o \in IndexWriters : ixOp = <<u, o>>
    /\ ixPc = <<"called", "called">>
    /\ ixLocal = <<{}, {}>>
    /\ ixStart \in StartIndexes
    /\ ixFile = ixStart
    /\ ixOverlap = FALSE

\* templates = self._load_templates_index()
LoadTemplatesIndex(t) ==
    /\ ixPc[t] = "called"
    /\ ixLocal' = [ixLocal EXCEPT ![t] = ixFile]
    /\ ixPc' = [ixPc EXCEPT ![t] = "loaded"]
    /\ ixOverlap' = (ixOverlap \/ ixPc[3 - t] = "loaded")
    /\ UNCHANGED <<ixOp, ixStart, ixFile>>

\* the modification in memory, then self._save_templates_index(templates)
SaveTemplatesIndex(t) ==
    /\ ixPc[t] = "loaded"
    /\ ixFile' = IF SavesIndex(ixOp[t], ixLocal[t]) THEN ModifyIndex(ixOp[t], ixLocal[t]) ELSE ixFile
    /\ ixPc' = [ixPc EXCEPT ![t] = "returned"]
    /\ UNCHANGED <<ixOp, ixLocal, ixStart, ixOverlap>>

IxStep ==
    \/ \E t \in {1, 2} : LoadTemplatesIndex(t)
    \/ \E t \in {1, 2} : SaveTemplatesIndex(t)

IxNext == IxStep /\ UNCHANGED <<pipeVars, encVars, cntVars, resVars, strokeVars, svVars, mkVars, cutVars, cropVars, inwVars, outwVars, ftVars, pvVars, trimVars, snVars, ccVars, nfVars, gnVars, rpVars, sqVars>>

SpecIndex == IxInit /\ [][IxNext]_vars

IxBothReturned == ixOp # <<>> /\ ixPc = <<"returned", "returned">>

\* the index after the two operations, one after the other, in either order
SerialOutcomes ==
    {ModifyIndex(ixOp[2], ModifyIndex(ixOp[1], ixStart)),
     ModifyIndex(ixOp[1], ModifyIndex(ixOp[2], ixStart))}

\* C26: _update_template_record is atomic: run concurrently with any other
\* writer of the template index, in every interleaving the final index holds
\* the effect of both operations (it is what the two give one after the
\* other) and no write is lost.
C26_UpdateIsAtomic ==
    IxBothReturned => ixFile \in SerialOutcomes

\* What the code does guarantee: when one operation loads the index only
\* after the other has saved it, the index holds the effect of both.
NonOverlappingWritersKeepBoth ==
    (IxBothReturned /\ ~ixOverlap) => ixFile \in SerialOutcomes

\* The update is lost: the other writer saved the list it had loaded before.
UpdateLost ==
    /\ IxBothReturned
    /\ <<"ref", TheTemplate, ixOp[1].arg>> \notin ixFile
    /\ RecordOf(TheTemplate) \in ixFile

\* The other write is lost: a deleted template is back in the index.
DeleteLost ==
    /\ IxBothReturned
    /\ ixOp[2].name = "delete_template"
    /\ RecordOf(TheTemplate) \in ixFile


-----------------------------------------------------------------------------
(* Length fields of the emitted document                                    *)

\* the record the writer in encWriter emitted for layer i
RecordWritten(i) ==
    IF encWriter = "PSDProcessorCore"
    THEN Core_LayerRecord(encLayers[i], encCanvas[1], encCanvas[2])
    ELSE LayerRecord(encLayers[i], encCanvas[1], encCanvas[2])

\* index of the first byte after record i, counted from what the writer wrote
RecordEnd(decoded, i) ==
    decoded.infoStart + 2 + Len(Flatten([j \in 1..i |-> RecordWritten(j)]))

\* index of the first byte after the last layer's channel data
ChannelDataEnd(decoded) ==
    RecordEnd(decoded, Len(encLayers))
    + Len(Flatten([j \in 1..Len(encLayers) |-> Flatten(ChannelsWritten(j))]))

\* index of the first byte of the composite-image section (marker, four planes)
CompositeStart == Len(encOut) - (2 + 4 * encCanvas[1] * encCanvas[2]) + 1

\* C24: in an emitted document every length field is exact: each record's
\* extra-data length ends at the end of that record, the layer-info length
\* ends at the end of the last layer's channel data, and the section length
\* ends where the composite-image section starts, so skipping by the length
\* fields lands on the next record or section.
C24_LengthFieldsExact ==
    Encoded =>
        LET decoded == ReadDocument(encOut)
        IN /\ Len(decoded.records) = Len(encLayers)
           /\ \A i \in 1..Len(encLayers) :
                 decoded.records[i].extraStart + decoded.records[i].extraLen
                    = RecordEnd(decoded, i)
           /\ decoded.infoStart + decoded.infoLen = ChannelDataEnd(decoded)
           /\ decoded.lamStart + decoded.lamLen = CompositeStart
           /\ decoded.compositePos = CompositeStart

\* a document of two layers, the first partly off the canvas, from the
\* shared writer
C24_Witness ==
    /\ Encoded /\ SharedWriter
    /\ Len(encLayers) = 2
    /\ ~InsideCanvas(1)
    /\ ReadDocument(encOut).records[1].extraLen > 8

\* the same from PSDProcessorCore, with a two-byte name
LengthFieldsOfCore_Reached ==
    /\ Encoded /\ encWriter = "PSDProcessorCore"
    /\ Len(encLayers) = 2
    /\ encLayers[1].name = Name_e_acute
    /\ ReadDocument(encOut).records[1].extraLen = 12


-----------------------------------------------------------------------------
(* The name field of a layer record, on names of every length               *)

MaxShortName == 5

\* lengths around the limits of the length byte, in characters and in
\* two-byte characters
LongNameLengths == {127, 128, 254, 255, 256, 257}

NameCharacters == {97, 32, 233}

Repeat(n, c) == [i \in 1..n |-> c]

FieldNames ==
    LET lengths == (0..MaxShortName) \cup LongNameLengths
    IN {Repeat(n, c) : n \in lengths, c \in NameCharacters}
       \cup {Repeat(n, 97) \o <<233>> : n \in lengths}

\* the name field of _write_layer_info / _write_layers
Shared_NameField(name) ==
    LET name_bytes == NameBytesAscii(name)
        padding == NamePadding(Len(name_bytes))
    IN <<Len(name_bytes)>> \o name_bytes \o Zeros(padding)

\* the name field of _create_layered_psd_data
Core_NameField(name) ==
    LET layer_name == Utf8(name)
        name_length == Len(layer_name)
    IN <<name_length>> \o layer_name \o Zeros(Core_PaddedLength(name_length) - name_length - 1)

NfInit ==
    /\ PipeIdle /\ EncIdle /\ CntIdle /\ ResIdle /\ StrokeIdle /\ SvIdle /\ MkIdle /\ CutIdle /\ CropIdle /\ InwIdle /\ OutwIdle /\ FtIdle /\ PvIdle /\ TrimIdle /\ SnIdle /\ CcIdle /\ IxIdle /\ GnIdle /\ RpIdle /\ SqIdle
    /\ nfName \in FieldNames
    /\ nfWriter = "none"
    /\ nfPc = "input"
    /\ nfOut = <<>>

\* InsideTransformer._write_layer_info: layer['name'].encode('ascii')[:255]
NameFieldInside ==
    /\ nfPc = "input"
    /\ nfWriter' = "InsideTransformer"
    /\ IF AsciiEncodable(nfName)
       THEN nfPc' = "written" /\ nfOut' = Shared_NameField(nfName)
       ELSE nfPc' = "raised" /\ nfOut' = <<>>
    /\ UNCHANGED nfName

\* PSDReplacer._write_layers: the same lines
NameFieldReplacer ==
    /\ nfPc = "input"
    /\ nfWriter' = "PSDReplacer"
    /\ IF AsciiEncodable(nfName)
       THEN nfPc' = "written" /\ nfOut' = Shared_NameField(nfName)
       ELSE nfPc' = "raised" /\ nfOut' = <<>>
    /\ UNCHANGED nfName

\* PSDProcessorCore._create_layered_psd_data: encode('utf-8'), struct.pack('B', name_length)
NameFieldCore ==
    /\ nfPc = "input"
    /\ nfWriter' = "PSDProcessorCore"
    /\ IF FitsU8(Len(Utf8(nfName)))
       THEN nfPc' = "written" /\ nfOut' = Core_NameField(nfName)
       ELSE nfPc' = "raised" /\ nfOut' = <<>>
    /\ UNCHANGED nfName

NfStep ==
    \/ NameFieldInside
    \/ NameFieldReplacer
    \/ NameFieldCore

NfNext == NfStep /\ UNCHANGED <<pipeVars, encVars, cntVars, resVars, strokeVars, svVars, mkVars, cutVars, cropVars, inwVars, outwVars, ftVars, pvVars, trimVars, snVars, ccVars, ixVars, gnVars, rpVars, sqVars>>

SpecNameField == NfInit /\ [][NfNext]_vars

\* the field the layout asks for, from the bytes of the name
ExpectedNameField(bytes) ==
    LET L == Min(255, Len(bytes))
        padding == CHOOSE p \in 0..3 : (1 + L + p) % 4 = 0
    IN <<L>> \o SubSeq(bytes, 1, L) \o Zeros(padding)

\* C25: for every layer name, of any length and any characters, the name
\* field written is the length byte L = min(255, byte length), the first L
\* bytes of the name, and zero bytes up to a multiple of 4; a name longer
\* than 255 bytes is truncated and encoding does not fail.
C25_NameField ==
    nfPc \in {"written", "raised"} =>
        /\ nfPc = "written"
        /\ nfOut = ExpectedNameField(Utf8(nfName))

\* What the writers do guarantee: an ASCII name of at most 255 characters
\* is written as the layout asks, by all three.
AsciiNameFieldWritten ==
    (nfPc \in {"written", "raised"} /\ AsciiEncodable(nfName) /\ Len(nfName) <= 255) =>
        /\ nfPc = "written"
        /\ nfOut = ExpectedNameField(nfName)

\* The shared writer truncates a longer ASCII name to 255 bytes.
SharedWriterTruncates ==
    (nfPc \in {"written", "raised"} /\ nfWriter # "PSDProcessorCore" /\ AsciiEncodable(nfName)) =>
        /\ nfPc = "written"
        /\ nfOut = ExpectedNameField(nfName)

\* PSDProcessorCore writes a name with other characters as its UTF-8 bytes,
\* up to 255 of them.
CoreWritesUtf8 ==
    (nfPc \in {"written", "raised"} /\ nfWriter = "PSDProcessorCore" /\ Len(Utf8(nfName)) <= 255) =>
        /\ nfPc = "written"
        /\ nfOut = ExpectedNameField(Utf8(nfName))

\* the two failures
SharedWriterRaisesOnCharacter == nfPc = "raised" /\ nfWriter = "InsideTransformer" /\ Len(nfName) = 1
CoreRaisesOnLength == nfPc = "raised" /\ nfWriter = "PSDProcessorCore" /\ AsciiEncodable(nfName)


-----------------------------------------------------------------------------
(* generate_final_psd from the line that assigns result_id: the stages,     *)
(* the files of that result id, and the exits.  What a stage returns and    *)
(* which file it leaves are the outcomes its code can produce.              *)

\* _cleanup_temp_files: the three names it removes
TempFiles == {"result.psd", "step1_aligned_image.png", "step1_aligned_template.psd"}

Cleanup_temp_files(files) == files \ TempFiles

ComponentChoices == {"none", "missing", "present"}

GnInit ==
    /\ PipeIdle /\ EncIdle /\ CntIdle /\ ResIdle /\ StrokeIdle /\ SvIdle /\ MkIdle /\ CutIdle /\ CropIdle /\ InwIdle /\ OutwIdle /\ FtIdle /\ PvIdle /\ TrimIdle /\ SnIdle /\ CcIdle /\ IxIdle /\ NfIdle /\ RpIdle /\ SqIdle
    /\ \E force \in BOOLEAN, match \in BOOLEAN, comp \in ComponentChoices :
          gnInput = [force_resize |-> force, sizes_match |-> match, component |-> comp]
    /\ gnPc = "align"
    /\ gnFiles = {}
    /\ gnReplace = "none" /\ gnTransform = "none"
    /\ gnRan = {}
    /\ gnExit = "none" /\ gnResult = "none"

\* return False, ... at one of the early returns: nothing is cleaned
ReturnFailure(exit, files) ==
    /\ gnPc' = "returned" /\ gnResult' = "failure" /\ gnExit' = exit
    /\ gnFiles' = files

\* except Exception: self._cleanup_temp_files(result_id); return False, str(e)
RaiseToHandler(files) ==
    /\ gnPc' = "returned" /\ gnResult' = "failure" /\ gnExit' = "exception"
    /\ gnFiles' = Cleanup_temp_files(files)

\* step 0, _align_image_to_template: returns True or raises
AlignImageToTemplate ==
    /\ gnPc = "align"
    /\ gnRan' = gnRan \cup {"align"}
    /\ \E raised \in BOOLEAN, wrote \in BOOLEAN :
          LET target == IF gnInput.force_resize THEN "step1_aligned_image.png"
                        ELSE "step1_aligned_template.psd"
              files == IF wrote /\ ~gnInput.sizes_match THEN gnFiles \cup {target} ELSE gnFiles
          IN /\ (~raised /\ ~gnInput.sizes_match) => wrote
             /\ IF raised
                THEN RaiseToHandler(files)
                ELSE gnPc' = "replace" /\ gnFiles' = files /\ UNCHANGED <<gnExit, gnResult>>
    /\ UNCHANGED <<gnInput, gnReplace, gnTransform>>

\* step 1, _apply_psd_replacer: the value of replace() is dropped, the
\* stage succeeded if the result file exists
ApplyPsdReplacer ==
    /\ gnPc = "replace"
    /\ gnRan' = gnRan \cup {"replace"}
    /\ \E ret \in {"True", "False"}, wrote \in BOOLEAN :
          LET files == IF wrote THEN gnFiles \cup {"result.psd"} ELSE gnFiles
          IN /\ ret = "True" => wrote
             /\ gnReplace' = ret
             /\ IF "result.psd" \in files
                THEN gnPc' = "transform" /\ gnFiles' = files /\ UNCHANGED <<gnExit, gnResult>>
                ELSE ReturnFailure("replacement", files)
    /\ UNCHANGED <<gnInput, gnTransform>>

\* step 2, _apply_final_transform: transformer.transform() is called as a
\* statement, the stage succeeded if the final file exists; transform()
\* copies its input to the output path in step 1 and may fail after that
ApplyFinalTransform ==
    /\ gnPc = "transform"
    /\ gnRan' = gnRan \cup {"transform"}
    /\ \E ret \in {"True", "False"}, copied \in BOOLEAN :
          LET files == IF copied THEN gnFiles \cup {"final.psd"} ELSE gnFiles
          IN /\ ret = "True" => copied
             /\ gnTransform' = ret
             /\ IF "final.psd" \in files
                THEN gnPc' = "component" /\ gnFiles' = files /\ UNCHANGED <<gnExit, gnResult>>
                ELSE ReturnFailure("final transform", files \ {"result.psd"})
    /\ UNCHANGED <<gnInput, gnReplace>>

\* step 3, the window layer of the chosen component
AddWindowLayer ==
    /\ gnPc = "component"
    /\ gnRan' = gnRan \cup {"component"}
    /\ CASE gnInput.component = "none" ->
                gnPc' = "preview" /\ UNCHANGED <<gnFiles, gnExit, gnResult>>
         [] gnInput.component = "missing" ->
                ReturnFailure("missing component", gnFiles)
         [] gnInput.component = "present" ->
                \E outcome \in {"True", "False", "raised"} :
                    CASE outcome = "True" -> gnPc' = "preview" /\ UNCHANGED <<gnFiles, gnExit, gnResult>>
                      [] outcome = "False" -> ReturnFailure("window layer", gnFiles)
                      [] outcome = "raised" -> RaiseToHandler(gnFiles)
    /\ UNCHANGED <<gnInput, gnReplace, gnTransform>>

\* steps 4 and 5, then _cleanup_temp_files and return True
PreviewAndReturn ==
    /\ gnPc = "preview"
    /\ gnRan' = gnRan \cup {"preview"}
    /\ \E preview_success \in BOOLEAN :
          gnFiles' = Cleanup_temp_files(IF preview_success THEN gnFiles \cup {"preview.png"} ELSE gnFiles)
    /\ gnPc' = "returned" /\ gnResult' = "success" /\ gnExit' = "success"
    /\ UNCHANGED <<gnInput, gnReplace, gnTransform>>

GnStep ==
    \/ AlignImageToTemplate
    \/ ApplyPsdReplacer
    \/ ApplyFinalTransform
    \/ AddWindowLayer
    \/ PreviewAndReturn

GnNext == GnStep /\ UNCHANGED <<pipeVars, encVars, cntVars, resVars, strokeVars, svVars, mkVars, cutVars, cropVars, inwVars, outwVars, ftVars, pvVars, trimVars, snVars, ccVars, ixVars, nfVars, rpVars, sqVars>>

SpecGenerate == GnInit /\ [][GnNext]_vars

\* C27: whenever generate_final_psd returns after the result id was
\* assigned, with success or with failure at any stage, none of
\* <result_id>_result.psd, <result_id>_step1_aligned_image.png and
\* <result_id>_step1_aligned_template.psd remains.
C27_TempFilesCleaned ==
    gnResult # "none" => gnFiles \cap TempFiles = {}

\* What the code does guarantee: on the success return and on the exception
\* exit the three files are gone.
CleanedOnSuccessAndException ==
    gnExit \in {"success", "exception"} => gnFiles \cap TempFiles = {}

\* The failed final transform removes the intermediate document only.
FinalTransformExitRemovesResult ==
    gnExit = "final transform" => "result.psd" \notin gnFiles

\* an early return that leaves an aligned file behind
AlignedFileLeft ==
    /\ gnExit = "replacement"
    /\ gnFiles \cap {"step1_aligned_image.png", "step1_aligned_template.psd"} # {}

\* C28: generate_final_psd returns success only if replace() returned True
\* and transform() returned True; if either returned False no later stage
\* runs and the call returns failure.
C28_StageFailureStops ==
    /\ gnResult = "success" => (gnReplace = "True" /\ gnTransform = "True")
    /\ gnReplace = "False" => ("transform" \notin gnRan /\ gnResult # "success")
    /\ gnTransform = "False" => (gnRan \cap {"component", "preview"} = {} /\ gnResult # "success")

\* What the code does guarantee: a stage whose output file does not exist
\* stops the pipeline with a failure, and a success return has a final file.
MissingOutputStops ==
    /\ (gnReplace # "none" /\ "transform" \notin gnRan /\ gnPc = "returned") => gnResult = "failure"
    /\ gnResult = "success" => "final.psd" \in gnFiles
    /\ gnExit = "final transform" => gnRan \cap {"component", "preview"} = {}

\* success although transform() returned False
SuccessAfterFailedTransform == gnResult = "success" /\ gnTransform = "False" /\ gnReplace = "True"

\* the transform ran although replace() returned False
TransformAfterFailedReplace == gnReplace = "False" /\ "transform" \in gnRan


-----------------------------------------------------------------------------
(* PSDReplacer.replace from the collected layers on: _save_psd, its         *)
(* fallback, and the checks of replace() on the output file                 *)

\* the first bytes of what Image.save(path, 'PNG') writes: the signature
\* and the IHDR chunk head for an RGBA image of 8 bits (the compressed
\* pixel data that follows is left out)
PngSignature == <<137, 80, 78, 71, 13, 10, 26, 10>>

PngFileHead(w, h) ==
    PngSignature \o PackU32(13) \o <<73, 72, 68, 82>> \o PackU32(w) \o PackU32(h) \o <<8, 6, 0, 0, 0>>

RpInit ==
    /\ PipeIdle /\ EncIdle /\ CntIdle /\ ResIdle /\ StrokeIdle /\ SvIdle /\ MkIdle /\ CutIdle /\ CropIdle /\ InwIdle /\ OutwIdle /\ FtIdle /\ PvIdle /\ TrimIdle /\ SnIdle /\ CcIdle /\ IxIdle /\ NfIdle /\ GnIdle /\ SqIdle
    /\ \E c \in Canvases :
        /\ rpCanvas = c
        /\ \E kind \in 1..Len(LayerKinds), x \in {-1, 0, c[1] - 1}, y \in {0, c[2]},
              rest \in OverlayLists(c[1], c[2], MaxLayers - 1) :
                 rpLayers = <<MakeLayer(1, 0, 0, c[1], c[2]), MakeLayer(kind, x, y, 1, 1)>> \o rest
    /\ rpPc = "collected"
    /\ rpFile = <<>>
    /\ rpReturn = "none"

\* _save_psd wrote the document: create_replaced_psd returns True, the file
\* exists and is not empty, replace() returns True
SavePsd ==
    /\ rpPc = "collected"
    /\ ~LayerInfoRaises(rpLayers)
    /\ rpFile' = Replacer_save_psd(rpLayers, rpCanvas[1], rpCanvas[2])
    /\ rpReturn' = "True"
    /\ rpPc' = "returned"
    /\ UNCHANGED <<rpCanvas, rpLayers>>

\* _write_layers raised: except Exception -> _fallback_save_psd saves the
\* flattened image as PNG under the output path and does not raise, so
\* create_replaced_psd returns True and replace() returns True
FallbackSavePsd ==
    /\ rpPc = "collected"
    /\ LayerInfoRaises(rpLayers)
    /\ rpFile' = PngFileHead(rpCanvas[1], rpCanvas[2])
    /\ rpReturn' = "True"
    /\ rpPc' = "returned"
    /\ UNCHANGED <<rpCanvas, rpLayers>>

\* the fallback save fails as well: raise e, create_replaced_psd returns
\* False, replace() returns False; the file holds what was written before
\* _write_layers raised
FallbackFails ==
    /\ rpPc = "collected"
    /\ LayerInfoRaises(rpLayers)
    /\ rpFile' = FileHeader(rpCanvas[1], rpCanvas[2]) \o PackU32(0) \o PackU32(0)
    /\ rpReturn' = "False"
    /\ rpPc' = "returned"
    /\ UNCHANGED <<rpCanvas, rpLayers>>

RpStep ==
    \/ SavePsd
    \/ FallbackSavePsd
    \/ FallbackFails

RpNext == RpStep /\ UNCHANGED <<pipeVars, encVars, cntVars, resVars, strokeVars, svVars, mkVars, cutVars, cropVars, inwVars, outwVars, ftVars, pvVars, trimVars, snVars, ccVars, ixVars, nfVars, gnVars, sqVars>>

SpecReplaceSave == RpInit /\ [][RpNext]_vars

\* the file is a layered container with one record per collected layer
IsLayeredContainer(file, layers) ==
    /\ SubSeq(file, 1, 4) = Sig_8BPS
    /\ LET decoded == ReadDocument(file)
       IN /\ decoded.count = -Len(layers)
          /\ Len(decoded.records) = Len(layers)
          /\ \A i \in 1..Len(layers) : decoded.records[i].name = layers[i].name

\* C29: whenever replace() returns True the output file is a layered
\* container: it starts with the 8BPS header and holds one record per
\* collected layer; an error while writing the layers never ends in a
\* success return with a file in another format.
C29_SuccessIsContainer ==
    rpReturn = "True" => IsLayeredContainer(rpFile, rpLayers)

\* What the code does guarantee: with names the writer can encode, replace()
\* returns True and the file is the layered container.
EncodableLayersGiveContainer ==
    (rpPc = "returned" /\ \A i \in 1..Len(rpLayers) : AsciiEncodable(rpLayers[i].name)) =>
        /\ rpReturn = "True"
        /\ IsLayeredContainer(rpFile, rpLayers)

\* a success return with a PNG file under the output path
SuccessWithPng ==
    /\ rpReturn = "True"
    /\ SubSeq(rpFile, 1, 8) = PngSignature
    /\ \E i \in 1..Len(rpLayers) : rpLayers[i].name = Name_e_acute


-----------------------------------------------------------------------------
(* The layer sequence through the stages that rewrite a document.  A layer  *)
(* of the input is its raw name, whether it has pixels (composite() and     *)
(* topil() give an image, bbox is not empty) and whether its box meets the  *)
(* canvas.                                                                  *)

SeqLayer(name, pixels, onCanvas) == [name |-> name, pixels |-> pixels, onCanvas |-> onCanvas]

RawNames(d) == [i \in 1..Len(d) |-> d[i].name]

\* the layers a loop keeps: "if not layer_image: continue" / "if bounds:"
WithPixels(d) == SelectSeq(d, LAMBDA l : l.pixels)

\* InsideTransformer.transform: validation, then _create_transformed_layers
\* writes layer.name of every layer that has an image
Inside_transform(d) ==
    IF Inside_detect_missing(RawNames(d)) # {} THEN [ok |-> FALSE, names |-> <<>>]
    ELSE [ok |-> TRUE, names |-> Inside_written_names(RawNames(WithPixels(d)))]

\* PSDReplacer.replace: _detect_part_layers, then _write_replaced_psd keeps
\* every layer that has an image and bounds (a part that was not cropped
\* keeps its own image), named sanitize_name(layer.name)
Replacer_replace(d) ==
    IF {Name_part1, Name_part2, Name_part3, Name_part4}
          \ FoundLayers(RawNames(WithPixels(d)), RoleNames) # {}
    THEN [ok |-> FALSE, names |-> <<>>]
    ELSE [ok |-> TRUE,
          names |-> [i \in 1..Len(WithPixels(d)) |-> sanitize_name(WithPixels(d)[i].name)]]

\* IntegratedProcessor.process: _detect_layers, then replace_parts leaves out
\* a part layer whose _extract_part_by_shape gives None
Integrated_replace_parts(d) ==
    IF Integrated_detect_missing(RawNames(d)) # {} THEN [ok |-> FALSE, names |-> <<>>]
    ELSE LET isPart(l) == Lower(sanitize_name(l.name)) \in RoleNames \ {Name_view}
             kept == SelectSeq(d, LAMBDA l : l.pixels /\ (isPart(l) => l.onCanvas))
         IN [ok |-> TRUE, names |-> [i \in 1..Len(kept) |-> sanitize_name(kept[i].name)]]

\* PSDScaler._clean_layer_name: sanitize_name, then '<>:"/\|?*' become '_'
IllegalFileChars == {60, 62, 58, 34, 47, 92, 124, 63, 42}

Clean_layer_name(name) ==
    LET replaced == [i \in 1..Len(sanitize_name(name)) |->
                        IF sanitize_name(name)[i] \in IllegalFileChars THEN 95
                        ELSE sanitize_name(name)[i]]
    IN IF Strip(replaced) = <<>> THEN Name_unnamed_layer ELSE Strip(replaced)

\* the path of a layer's PNG inside the directory: "<name>.png"
PngFileName(name) == name \o <<46, 112, 110, 103>>

\* str comparison of Python: by code point, a proper prefix first
StrLess(a, b) ==
    \/ Len(a) < Len(b) /\ SubSeq(b, 1, Len(a)) = a
    \/ \E i \in 1..Min(Len(a), Len(b)) :
          /\ SubSeq(a, 1, i - 1) = SubSeq(b, 1, i - 1)
          /\ a[i] < b[i]

\* sorted(glob.glob("*.png")) as layer names
RECURSIVE SortedStems(_)
SortedStems(names) ==
    IF names = {} THEN <<>>
    ELSE LET first == CHOOSE n \in names :
                         \A o \in names \ {n} : StrLess(PngFileName(n), PngFileName(o))
         IN <<first>> \o SortedStems(names \ {first})

\* extract_layers_from_psd: one "<clean name>.png" per layer with pixels (a
\* second layer of the same name overwrites the file); create_psd_from_dir:
\* one layer per file of sorted(glob), named by the file
Scaler_scale_psd(d) ==
    IF Len(d) = 0 THEN [ok |-> FALSE, names |-> <<>>]
    ELSE LET files == {Clean_layer_name(WithPixels(d)[i].name) : i \in 1..Len(WithPixels(d))}
         IN IF files = {} THEN [ok |-> FALSE, names |-> <<>>]
            ELSE [ok |-> TRUE, names |-> SortedStems(files)]

\* _generate_single_stroke_version: extract_layers_from_psd, the PNGs are
\* expanded and stroked under their file names, create_psd_from_dir
StrokeVersion_rebuild(d) == Scaler_scale_psd(d)

SequenceStages == {"InsideTransformer.transform", "PSDReplacer.replace",
                   "IntegratedProcessor.process", "PSDScaler.scale_psd",
                   "stroke version"}

\* the role layers in paint order, view at the bottom or on top
RoleOrders(p1) ==
    {<<Name_view, p1, Name_part2, Name_part3, Name_part4>>,
     <<p1, Name_part2, Name_part3, Name_part4, Name_view>>}

\* further layers on top of the role layers
ExtraLayers ==
    {<<>>,
     <<SeqLayer(Name_logo, TRUE, TRUE)>>,
     <<SeqLayer(Name_logo, FALSE, TRUE)>>,
     <<SeqLayer(Name_logo, TRUE, TRUE), SeqLayer(Name_logo, TRUE, TRUE)>>,
     <<SeqLayer(Name_win, TRUE, TRUE), SeqLayer(Name_logo, TRUE, TRUE)>>}

SqInit ==
    /\ PipeIdle /\ EncIdle /\ CntIdle /\ ResIdle /\ StrokeIdle /\ SvIdle /\ MkIdle /\ CutIdle /\ CropIdle /\ InwIdle /\ OutwIdle /\ FtIdle /\ PvIdle /\ TrimIdle /\ SnIdle /\ CcIdle /\ IxIdle /\ NfIdle /\ GnIdle /\ RpIdle
    /\ \E p1 \in {Name_part1, UpperFirst(Name_part1), Name_part1 \o NUL, <<>>},
          onCanvas \in BOOLEAN, extra \in ExtraLayers :
        \E order \in RoleOrders(p1) :
          sqDoc = [i \in 1..Len(order) |->
                      SeqLayer(order[i], TRUE, IF order[i] = p1 THEN onCanvas ELSE TRUE)]
                  \o extra
    /\ sqStage = "none"
    /\ sqPc = "input"
    /\ sqOut = <<>>

Rewrite(stage, outcome) ==
    /\ sqPc = "input"
    /\ sqStage' = stage
    /\ sqPc' = IF outcome.ok THEN "written" ELSE "failed"
    /\ sqOut' = outcome.names
    /\ UNCHANGED sqDoc

RewriteInside == Rewrite("InsideTransformer.transform", Inside_transform(sqDoc))
RewriteReplacer == Rewrite("PSDReplacer.replace", Replacer_replace(sqDoc))
RewriteIntegrated == Rewrite("IntegratedProcessor.process", Integrated_replace_parts(sqDoc))
RewriteScaler == Rewrite("PSDScaler.scale_psd", Scaler_scale_psd(sqDoc))
RewriteStrokeVersion == Rewrite("stroke version", StrokeVersion_rebuild(sqDoc))

SqStep ==
    \/ RewriteInside
    \/ RewriteReplacer
    \/ RewriteIntegrated
    \/ RewriteScaler
    \/ RewriteStrokeVersion

SqNext == SqStep /\ UNCHANGED <<pipeVars, encVars, cntVars, resVars, strokeVars, svVars, mkVars, cutVars, cropVars, inwVars, outwVars, ftVars, pvVars, trimVars, snVars, ccVars, ixVars, nfVars, gnVars, rpVars>>

SpecLayerSequence == SqInit /\ [][SqNext]_vars

\* the sanitized names of the input layers, in paint order
SanitizedSequence == [i \in 1..Len(sqDoc) |-> sanitize_name(sqDoc[i].name)]

\* C30: the output of every rewriting stage has one layer per input layer,
\* with the same sanitized names in the same paint order: no layer is
\* dropped, duplicated or reordered, also when two layers share a name or a
\* part layer lies outside the canvas.
C30_LayerSequenceKept ==
    sqPc = "written" => sqOut = SanitizedSequence

AllHavePixels == \A i \in 1..Len(sqDoc) : sqDoc[i].pixels

\* What the code does guarantee.  PSDReplacer.replace keeps the sequence of
\* a document whose layers all have pixels, also with a shared name and
\* with a part layer off the canvas.
ReplacerKeepsSequence ==
    (sqPc = "written" /\ sqStage = "PSDReplacer.replace" /\ AllHavePixels)
        => sqOut = SanitizedSequence

\* IntegratedProcessor.process keeps it when the part layers meet the canvas.
IntegratedKeepsSequenceOnCanvas ==
    (sqPc = "written" /\ sqStage = "IntegratedProcessor.process" /\ AllHavePixels
        /\ \A i \in 1..Len(sqDoc) : sqDoc[i].onCanvas)
        => sqOut = SanitizedSequence

\* InsideTransformer.transform keeps order and count; the names it writes
\* are the raw ones.
InsideKeepsRawSequence ==
    (sqPc = "written" /\ sqStage = "InsideTransformer.transform" /\ AllHavePixels)
        => sqOut = RawNames(sqDoc)

\* The two stages that go through a directory of PNG files keep the
\* sequence of a document whose names are distinct and already in file
\* name order.
DirectoryStagesKeepSortedSequence ==
    (sqPc = "written" /\ sqStage \in {"PSDScaler.scale_psd", "stroke version"} /\ AllHavePixels
        /\ \A i \in 1..Len(sqDoc) : \A j \in 1..Len(sqDoc) :
              i < j => StrLess(PngFileName(SanitizedSequence[i]), PngFileName(SanitizedSequence[j])))
        => sqOut = SanitizedSequence

\* the view layer moved from the bottom to the top
ScalerReorders ==
    /\ sqPc = "written" /\ sqStage = "PSDScaler.scale_psd"
    /\ Len(sqOut) = Len(sqDoc)
    /\ sqDoc[1].name = Name_view /\ sqOut[1] = Name_part1

\* a part layer off the canvas is missing from the output
IntegratedDropsPart ==
    /\ sqPc = "written" /\ sqStage = "IntegratedProcessor.process"
    /\ AllHavePixels
    /\ Len(sqOut) = Len(sqDoc) - 1

\* two layers of one name became one
SharedNameMerged ==
    /\ sqPc = "written" /\ sqStage = "stroke version"
    /\ AllHavePixels
    /\ Len(sqOut) = Len(sqDoc) - 1

=============================================================================
